---- MODULE Spec2Model ----
(***************************************************************************)
(* A model of the EkoIA CO2 micro-service core:                            *)
(*   - the region text normaliser and the dataset loader/cleaner of        *)
(*     utils/data_analysis.py (CO2DataAnalyzer),                           *)
(*   - the category partitioner of the same class,                         *)
(*   - the two trainers, models/prediction_model.py (CO2PredictionModel)   *)
(*     and models/land_use_model.py (LandUseCO2Model).                     *)
(*                                                                         *)
(* Text is a sequence of Unicode code points (naturals), so that the       *)
(* ordering used by sorted() and the character classes used by NFKD,       *)
(* upper() and strip() are the ones Python applies.                        *)
(***************************************************************************)
EXTENDS Integers, Sequences, FiniteSets, TLC

VARIABLES
    r,          \* normaliser: the raw region string under normalisation
    nr,         \* normaliser: normalize_region(r) once npc # "raw"
    nnr,        \* normaliser: normalize_region(nr) once npc = "twice"
    npc,        \* normaliser: "raw", "once" or "twice"
    raw,        \* loader: the DataFrame handed to CO2DataAnalyzer(df)
    analyzer,   \* loader: the analyzer built from raw (NoAnalyzer before / on a raise)
    reloaded,   \* loader: the analyzer built from analyzer.df
    lout,       \* loader: outcome of the last loader operation
    pm,         \* trainers: the CO2PredictionModel object
    lum,        \* trainers: the LandUseCO2Model object
    files,      \* trainers: what save_model pickled, per trainer
    calls,      \* trainers: number of train calls made so far
    succeeded,  \* trainers: per trainer, whether a train / a load_model has succeeded
    tout,       \* trainers: the last trainer operation and its outcome
    merged_df,  \* service: the merged table of app/main.py (NoneV before a merge)
    disk,       \* service: the data files under the data directory
    resp        \* service: the last request and the answer it got

normVars == <<r, nr, nnr, npc>>
loadVars == <<raw, analyzer, reloaded, lout>>
trainVars == <<pm, lum, files, calls, succeeded, tout>>
apiVars == <<merged_df, disk, resp>>
vars == <<r, nr, nnr, npc, raw, analyzer, reloaded, lout, pm, lum, files, calls, succeeded, tout,
          merged_df, disk, resp>>

(***************************************************************************)
(* Bounds of the model.                                                    *)
(***************************************************************************)
MaxLen == 3      \* longest raw region string enumerated for the normaliser
MaxRows == 2     \* most rows of a raw table handed to the loader
MaxTrainRows == 2 \* most rows of a table handed to train
MaxCalls == 2    \* most train calls in one behaviour
MaxQueryRows == 3 \* most rows of a raw table handed to the queried analyzer

(***************************************************************************)
(* Generic sequence helpers.                                               *)
(***************************************************************************)
RECURSIVE Flatten(_)
Flatten(ss) == IF ss = <<>> THEN <<>> ELSE Head(ss) \o Flatten(Tail(ss))

Range(s) == {s[i] : i \in 1..Len(s)}

StringsUpTo(alphabet, n) == UNION {[1..k -> alphabet] : k \in 0..n}

\* s is a contiguous substring of t (Python's `in` / str.contains on a literal)
Contains(t, s) ==
    \E i \in 0..(Len(t) - Len(s)) : SubSeq(t, i + 1, i + Len(s)) = s

(***************************************************************************)
(* Character classes of the code points the model uses.                    *)
(*    9,10,13,32  ASCII white space        160  NO-BREAK SPACE             *)
(*    48..57      digits                   44 ','   46 '.'                 *)
(*    65..90      A..Z                     97..122  a..z                   *)
(*    192..222    precomposed capitals     224..254 precomposed smalls     *)
(*    312         LATIN SMALL LETTER KRA (a lowercase letter that has no   *)
(*                uppercase form)                                          *)
(*    768..879    combining diacritical marks                              *)
(***************************************************************************)
IsSpace(c) == c \in {9, 10, 11, 12, 13, 32, 133, 160}

\* unicodedata.combining(c) # 0
Combining(c) == c \in 768..879 /\ c # 847

\* Unicode general category Ll
IsLower(c) == c \in 97..122 \/ (c \in 223..255 /\ c # 247) \/ c = 312

\* the precomposed Latin-1 letters that NFKD splits into base + mark
Precomposed(c) == c \in {192, 193, 201, 205, 209, 211, 218, 224, 225, 233, 237, 241, 243, 250}

BaseOf(c) ==
    CASE c \in {192, 193} -> 65
      [] c = 201 -> 69
      [] c = 205 -> 73
      [] c = 209 -> 78
      [] c = 211 -> 79
      [] c = 218 -> 85
      [] c \in {224, 225} -> 97
      [] c = 233 -> 101
      [] c = 237 -> 105
      [] c = 241 -> 110
      [] c = 243 -> 111
      [] c = 250 -> 117
      [] OTHER -> c

MarkOf(c) ==
    CASE c \in {192, 224} -> 768
      [] c \in {209, 241} -> 771
      [] OTHER -> 769

\* unicodedata.normalize('NFKD', c) for one code point
DecomposeChar(c) ==
    IF Precomposed(c) THEN <<BaseOf(c), MarkOf(c)>>
    ELSE IF c = 160 THEN <<32>>
    ELSE <<c>>

\* unicodedata.normalize('NFKD', s)
NFKD(s) == Flatten([i \in 1..Len(s) |-> DecomposeChar(s[i])])

NotCombining(c) == ~Combining(c)

\* remove_accents for a str argument
remove_accents_no_nfkd(s) == SelectSeq(s, NotCombining)
remove_accents(s) == SelectSeq(NFKD(s), NotCombining)

\* str.upper() for one code point
UpperChar(c) ==
    IF c \in 97..122 THEN c - 32
    ELSE IF c \in 224..254 /\ c # 247 THEN c - 32
    ELSE c

\* .str.upper()
Upper(s) == [i \in 1..Len(s) |-> UpperChar(s[i])]

RECURSIVE LStrip(_)
LStrip(s) == IF s # <<>> /\ IsSpace(Head(s)) THEN LStrip(Tail(s)) ELSE s

RECURSIVE RStrip(_)
RStrip(s) ==
    IF s # <<>> /\ IsSpace(s[Len(s)]) THEN RStrip(SubSeq(s, 1, Len(s) - 1)) ELSE s

\* .str.strip()
Strip(s) == LStrip(RStrip(s))

\* the normalisation chain of _preprocess_data applied to one str cell
normalize_region(s) == Strip(Upper(remove_accents(s)))

(***************************************************************************)
(* Cells of a DataFrame.  A cell is a str, an int, a float (kept in tenths, *)
(* so 2020.5 is FloatCell(20205)), the float NaN, or None.                  *)
(***************************************************************************)
StrCell(s) == [t |-> "str", s |-> s]
IntCell(n) == [t |-> "int", v |-> n]
FloatCell(n) == [t |-> "float", v |-> n]
NaN == [t |-> "nan"]
None == [t |-> "none"]
Absent == [t |-> "absent"]          \* the cell of a column the frame lacks

IsNull(c) == c.t \in {"nan", "none"}

IsDigit(c) == c \in 48..57

RECURSIVE Digits(_)
\* str(n) for a non-negative int
Digits(n) == IF n < 10 THEN <<48 + n>> ELSE Digits(n \div 10) \o <<48 + (n % 10)>>

RECURSIVE DigitsValue(_)
\* int(s) for a string of digits
DigitsValue(s) ==
    IF s = <<>> THEN 0 ELSE 10 * DigitsValue(SubSeq(s, 1, Len(s) - 1)) + (s[Len(s)] - 48)

\* str(cell), what .astype(str) makes of one cell
AsStr(c) ==
    CASE c.t = "str" -> c.s
      [] c.t = "int" -> Digits(c.v)
      [] c.t = "float" -> Digits(c.v \div 10) \o <<46>> \o Digits(c.v % 10)
      [] c.t = "nan" -> <<110, 97, 110>>
      [] c.t = "none" -> <<78, 111, 110, 101>>

AllDigits(s) == s # <<>> /\ \A i \in 1..Len(s) : IsDigit(s[i])

DotAt(s) == IF \E i \in 1..Len(s) : s[i] = 46
            THEN CHOOSE i \in 1..Len(s) : s[i] = 46 /\ \A j \in 1..(i - 1) : s[j] # 46
            ELSE 0

\* The number a string denotes: digits, or digits '.' with at most one
\* fractional digit (the strings the model feeds in carry no more).  Anything
\* else is not a number: NaN.
ParseNumber(s) ==
    LET d == DotAt(s) IN
    IF AllDigits(s) THEN IntCell(DigitsValue(s))
    ELSE IF d > 1 /\ AllDigits(SubSeq(s, 1, d - 1)) /\ Len(s) - d <= 1
            /\ \A i \in (d + 1)..Len(s) : IsDigit(s[i])
         THEN FloatCell(10 * DigitsValue(SubSeq(s, 1, d - 1))
                  + DigitsValue(SubSeq(s, d + 1, Len(s))))
    ELSE NaN

\* float(s): the text "nan" is the float NaN, an unparseable text raises
FloatRaises(s) == ParseNumber(s) = NaN /\ Upper(Strip(s)) # <<78, 65, 78>>

ToFloat(c) == IF c.t = "int" THEN FloatCell(10 * c.v) ELSE c

RECURSIVE RStripDots(_)
\* .str.rstrip('.')
RStripDots(s) ==
    IF s # <<>> /\ s[Len(s)] = 46 THEN RStripDots(SubSeq(s, 1, Len(s) - 1)) ELSE s

NotComma(c) == c # 44

\* .str.replace(',', '')
DropCommas(s) == SelectSeq(s, NotComma)

\* one ANO cell: astype(str), rstrip('.'), 'nan' -> NA, to_numeric(coerce)
coerce_year(c) ==
    LET s == RStripDots(AsStr(c)) IN
    IF s = <<110, 97, 110>> THEN NaN ELSE ParseNumber(s)

\* one VALOR_F cell: astype(str), commas removed, astype(float)
NotDot(c) == c # 46
amount_text_drop_dots(c) == SelectSeq(AsStr(c), NotDot)
amount_text(c) == DropCommas(AsStr(c))
coerce_amount(c) == ToFloat(ParseNumber(amount_text(c)))

\* pd.to_numeric gives the column one dtype: int64 when every cell is an
\* int, float64 otherwise
UnifyColumn(cells) ==
    IF \A i \in 1..Len(cells) : cells[i].t = "int" THEN cells
    ELSE [i \in 1..Len(cells) |-> ToFloat(cells[i])]

\* one REGION cell: astype(str), remove_accents, upper, strip
region_cell(c) == normalize_region(AsStr(c))

NAN == <<78, 65, 78>>
NONE == <<78, 79, 78, 69>>
COLOMBIA == <<67, 79, 76, 79, 77, 66, 73, 65>>

\* the row filter of _preprocess_data, on a normalised region
drop_region_exact_only(s) == s = NAN \/ s = NONE \/ s = COLOMBIA
drop_region(s) == s = NAN \/ s = NONE \/ Contains(s, COLOMBIA)

(***************************************************************************)
(* DataFrames: the set of column names and the sequence of rows; a row     *)
(* keeps its index label idx through every selection.                      *)
(***************************************************************************)
Frame(cols, rows) == [cols |-> cols, rows |-> rows]
EmptyFrame == Frame({}, <<>>)

Has(df, col) == col \in df.cols

\* CO2DataAnalyzer._preprocess_data, the year and value columns
preprocess_numbers(df) ==
    LET n == Len(df.rows)
        years == UnifyColumn([i \in 1..n |-> coerce_year(df.rows[i].ANO)])
    IN [i \in 1..n |->
            [df.rows[i] EXCEPT
                !.ANO = IF Has(df, "ANO") THEN years[i] ELSE @,
                !.VALOR_F = IF Has(df, "VALOR_F") THEN coerce_amount(@) ELSE @]]

\* astype(float) on the value column raises ValueError on an unparseable cell
preprocess_raises(df) ==
    /\ Has(df, "VALOR_F")
    /\ \E i \in 1..Len(df.rows) : FloatRaises(amount_text(df.rows[i].VALOR_F))

\* CO2DataAnalyzer._preprocess_data, the region column and the row filter
preprocess_region(df, rows) ==
    IF Has(df, "REGION")
    THEN LET norm == [i \in 1..Len(rows) |->
                         [rows[i] EXCEPT !.REGION = StrCell(region_cell(@))]]
             Keep(row) == ~drop_region(row.REGION.s)
         IN SelectSeq(norm, Keep)
    ELSE rows

preprocess_data(df) == Frame(df.cols, preprocess_region(df, preprocess_numbers(df)))

UNIDADES_AIRE_EMISIONES == {"GefCO2", "GefCH4", "GefN2O", "GefNOx", "GefCO"}
UNIDADES_BOSQUE_CAPTURA ==
    {"CF", "toneladas de masa seca por hectárea", "MB", "Cf", "toneladas de materia seca"}
UNIDADES_CAUSAS_FACTORES == {"toneladas de leña/habitante/año"}

\* df[df['UNIDAD_F'].isin(units)]
isin(df, units) ==
    LET Keep(row) == row.UNIDAD_F \in units IN
    Frame(df.cols, SelectSeq(df.rows, Keep))

\* CO2DataAnalyzer._create_category_dataframes
create_category_dataframes_copy_paste(df) ==
    IF Has(df, "UNIDAD_F")
    THEN [aire |-> isin(df, UNIDADES_AIRE_EMISIONES),
          bosque |-> isin(df, UNIDADES_BOSQUE_CAPTURA),
          causas |-> isin(df, UNIDADES_BOSQUE_CAPTURA)]
    ELSE [aire |-> EmptyFrame, bosque |-> EmptyFrame, causas |-> EmptyFrame]
create_category_dataframes(df) ==
    IF Has(df, "UNIDAD_F")
    THEN [aire |-> isin(df, UNIDADES_AIRE_EMISIONES),
          bosque |-> isin(df, UNIDADES_BOSQUE_CAPTURA),
          causas |-> isin(df, UNIDADES_CAUSAS_FACTORES)]
    ELSE [aire |-> EmptyFrame, bosque |-> EmptyFrame, causas |-> EmptyFrame]

NoAnalyzer == [state |-> "none"]

\* CO2DataAnalyzer.__init__ on a frame whose cleaning does not raise:
\* df.copy(), _preprocess_data, then _create_category_dataframes
CO2DataAnalyzer(df) ==
    LET clean == preprocess_data(df)
        parts == create_category_dataframes(clean)
    IN [state |-> "loaded",
        df |-> clean,
        df_aire_emisiones |-> parts.aire,
        df_bosque_captura |-> parts.bosque,
        df_causas_factores |-> parts.causas]

(***************************************************************************)
(* sorted(), Series.unique() and get_available_regions.                    *)
(***************************************************************************)
\* a < b for Python str: code point by code point, a proper prefix first
RECURSIVE LexLess(_, _)
LexLess(a, b) ==
    IF b = <<>> THEN FALSE
    ELSE IF a = <<>> THEN TRUE
    ELSE IF Head(a) # Head(b) THEN Head(a) < Head(b)
    ELSE LexLess(Tail(a), Tail(b))

RECURSIVE Insert(_, _)
Insert(x, s) ==
    IF s = <<>> THEN <<x>>
    ELSE IF LexLess(x, Head(s)) THEN <<x>> \o s
    ELSE <<Head(s)>> \o Insert(x, Tail(s))

RECURSIVE Sorted(_)
\* sorted(list of str), stable
Sorted(s) == IF s = <<>> THEN <<>> ELSE Insert(s[Len(s)], Sorted(SubSeq(s, 1, Len(s) - 1)))

RECURSIVE Unique(_)
\* Series.unique(): the distinct values in order of first appearance
Unique(s) ==
    IF s = <<>> THEN <<>>
    ELSE LET init == Unique(SubSeq(s, 1, Len(s) - 1)) IN
         IF s[Len(s)] \in Range(init) THEN init ELSE init \o <<s[Len(s)]>>

\* CO2DataAnalyzer.get_available_regions
get_available_regions_unsorted(an) ==
    IF Has(an.df, "REGION")
    THEN Unique([i \in 1..Len(an.df.rows) |-> an.df.rows[i].REGION.s])
    ELSE <<>>
get_available_regions(an) ==
    IF Has(an.df, "REGION")
    THEN Sorted(Unique([i \in 1..Len(an.df.rows) |-> an.df.rows[i].REGION.s]))
    ELSE <<>>

(***************************************************************************)
(* The trainers.  A fitted object remembers the train call that made it    *)
(* (call), so that the parts of a trainer can be told apart by origin.     *)
(*   model            NoneV, or an estimator: fitted or not, and when      *)
(*                    fitted the columns it was fitted on                  *)
(*   ohe              NoneV, or a OneHotEncoder: fitted or not, and when   *)
(*                    fitted its input columns and sorted categories       *)
(*   scaler           NoneV, or a StandardScaler (LandUseCO2Model only)    *)
(*   feature_columns  NoneV, or the column list of X                       *)
(*   metrics          the metrics dict ({} is EmptyDict)                   *)
(* A feature column is a pair: <<"ANO", <<>>>> for a numeric column,       *)
(* <<"REGION", v>> for the one-hot column of value v.                      *)
(***************************************************************************)
NoneV == [k |-> "None"]
EmptyDict == [k |-> "dict", call |-> 0]

NewPM == [model |-> NoneV, ohe |-> NoneV, feature_columns |-> NoneV, metrics |-> EmptyDict]
NewLUM == [model |-> NoneV, ohe |-> NoneV, scaler |-> NoneV, feature_columns |-> NoneV,
           metrics |-> EmptyDict]

UnfittedOHE == [k |-> "ohe", fitted |-> FALSE]
FittedOHE(c, cols, cats) == [k |-> "ohe", fitted |-> TRUE, call |-> c, cols |-> cols, cats |-> cats]
UnfittedModel(kind, n) == [k |-> "model", kind |-> kind, n_estimators |-> n, fitted |-> FALSE]
FittedModel(kind, n, c, cols, seed) ==
    [k |-> "model", kind |-> kind, n_estimators |-> n, fitted |-> TRUE, call |-> c, cols |-> cols,
     seed |-> seed]
UnfittedScaler == [k |-> "scaler", fitted |-> FALSE]
FittedScaler(c, cols) == [k |-> "scaler", fitted |-> TRUE, call |-> c, cols |-> cols]
Columns(c, names) == [k |-> "columns", call |-> c, names |-> names]
Metrics(c, ntrain, ntest, nfeat, seed) ==
    [k |-> "dict", call |-> c, train_samples |-> ntrain, test_samples |-> ntest,
     n_features |-> nfeat, scores |-> seed]

NoFile == [k |-> "nofile"]

TrainIdle ==
    /\ pm = NewPM
    /\ lum = NewLUM
    /\ files = [co2 |-> NoFile, land_use |-> NoFile]
    /\ calls = 0
    /\ succeeded = [co2 |-> [train |-> FALSE, load |-> FALSE],
                    land_use |-> [train |-> FALSE, load |-> FALSE]]
    /\ tout = [op |-> "idle"]

\* the columns of a frame, in the order the code lists them
InOrder(names, cols) == SelectSeq(names, LAMBDA c : c \in cols)

\* DataFrame.dropna(subset=cols)
dropna(df, subset) ==
    Frame(df.cols, SelectSeq(df.rows, LAMBDA row : \A c \in subset : ~IsNull(row[c])))

\* OneHotEncoder.fit: per input column, the sorted distinct values
fit_categories(df, catcols) ==
    [j \in 1..Len(catcols) |->
        Sorted(Unique([i \in 1..Len(df.rows) |-> df.rows[i][catcols[j]].s]))]

\* OneHotEncoder.get_feature_names_out
feature_names_out(ohe) ==
    Flatten([j \in 1..Len(ohe.cols) |->
                [i \in 1..Len(ohe.cats[j]) |-> <<ohe.cols[j], ohe.cats[j][i]>>]])

Numeric(names) == [i \in 1..Len(names) |-> <<names[i], <<>> >>]

\* OneHotEncoder.transform of one row: 1 in the column of the value the row
\* has, 0 elsewhere
transform_row_first_column(ohe, row) ==
    [j \in 1..Len(feature_names_out(ohe)) |-> IF j = 1 THEN 1 ELSE 0]
transform_row(ohe, row) ==
    LET out == feature_names_out(ohe)
    IN [j \in 1..Len(out) |-> IF row[out[j][1]].s = out[j][2] THEN 1 ELSE 0]

\* DataFrame.fillna(0) of a float column, one cell
fillna0(c) == IF IsNull(c) THEN FloatCell(0) ELSE c

\* train_test_split(X, y, test_size): the sizes of the two parts
\* (test_size is given in hundredths), n_test = ceil(test_size * n)
n_test(n, test_size) == (n * test_size + 99) \div 100
n_train(n, test_size) == n - n_test(n, test_size)
split_raises(n, test_size) ==
    test_size <= 0 \/ test_size >= 100 \/ n_train(n, test_size) = 0

\* model_params: {} or {'n_estimators': n}
NoParams == [given |-> FALSE]
NEstimators(n) == [given |-> TRUE, n_estimators |-> n]
n_estimators_of(params) == IF params.given THEN params.n_estimators ELSE 100

\* RandomForestRegressor.fit validates n_estimators >= 1
fit_raises(params) == n_estimators_of(params) < 1

(***************************************************************************)
(* CO2PredictionModel                                                      *)
(***************************************************************************)
NotCommaToDot(c) == IF c = 44 THEN 46 ELSE c

\* _preprocess_data: ANO with ',' -> '.', VALOR_F with ',' removed, both
\* .astype(float), which raises on text that is no number
pm_year_text(c) == [i \in 1..Len(AsStr(c)) |-> NotCommaToDot(AsStr(c)[i])]

pm_preprocess_raises(df) ==
    \/ Has(df, "ANO") /\ \E i \in 1..Len(df.rows) : FloatRaises(pm_year_text(df.rows[i].ANO))
    \/ Has(df, "VALOR_F")
         /\ \E i \in 1..Len(df.rows) : FloatRaises(amount_text(df.rows[i].VALOR_F))

pm_preprocess_data(df) ==
    Frame(df.cols \ {"CONTAMINANTE"},
          [i \in 1..Len(df.rows) |->
              [df.rows[i] EXCEPT
                  !.ANO = IF Has(df, "ANO") THEN ToFloat(ParseNumber(pm_year_text(@))) ELSE @,
                  !.VALOR_F = IF Has(df, "VALOR_F") THEN coerce_amount(@) ELSE @]])

PMCategorical == <<"REGION", "CATEGORIA">>
NumericFeatures == <<"ANO", "S", "SB1">>

\* the feature matrix X of CO2PredictionModel.train: the numeric columns as
\* they are, then the one-hot columns
pm_X(df_filtered, ohe) ==
    LET numeric == InOrder(NumericFeatures, df_filtered.cols) IN
    [i \in 1..Len(df_filtered.rows) |->
        [j \in 1..Len(numeric) |-> df_filtered.rows[i][numeric[j]]]
            \o transform_row(ohe, df_filtered.rows[i])]

\* what the build makes of a NaN in X: RandomForestRegressor takes it
\* (scikit-learn 1.4 and later) or raises, in fit when a NaN row is in the
\* train part, in the scoring predict when every NaN row is in the test part
NanOutcomes == {"accepted", "fit", "score"}

\* the rows of X with a NaN in a numeric column
nan_rows(df_filtered) ==
    Cardinality({i \in 1..Len(df_filtered.rows) :
        \E c \in Range(InOrder(NumericFeatures, df_filtered.cols)) :
            IsNull(df_filtered.rows[i][c])})

\* the seed of the forest: random_state when train fills in the parameters
\* itself, drawn from the system entropy when the caller gave parameters
\* (they carry no random_state)
seed_of(params, random_state, entropy) == IF params.given THEN entropy ELSE random_state

\* CO2PredictionModel.train: the object after the call, whether the call
\* raised, and the feature matrix X when the call got as far as building
\* it.  Each assignment to self takes effect where the code makes it, so a
\* raise keeps the assignments made before it.
pm_train_fits_empty(self, df, target_col, test_size, params, c, entropy, nan) ==
    IF pm_preprocess_raises(df) THEN [self |-> self, raised |-> "preprocess", X |-> NoneV]
    ELSE IF ~({"REGION", "CATEGORIA", target_col} \subseteq df.cols)
    THEN [self |-> self, raised |-> "KeyError", X |-> NoneV]
    ELSE
    LET df_filtered == dropna(pm_preprocess_data(df), {"REGION", "CATEGORIA", target_col})
        n == Len(df_filtered.rows)
        ohe == FittedOHE(c, PMCategorical, fit_categories(df_filtered, PMCategorical))
        names == Numeric(InOrder(NumericFeatures, df_filtered.cols)) \o feature_names_out(ohe)
        kind == "RandomForestRegressor"
        seed == seed_of(params, 42, entropy)
    IN IF n > 0 /\ split_raises(n, test_size)
       THEN [self |-> [self EXCEPT !.ohe = ohe, !.feature_columns = Columns(c, names)],
             raised |-> "train_test_split", X |-> pm_X(df_filtered, ohe)]
       ELSE [self |-> [self EXCEPT !.ohe = ohe, !.feature_columns = Columns(c, names),
                                   !.model = FittedModel(kind, n_estimators_of(params), c,
                                                         names, seed),
                                   !.metrics = Metrics(c, n_train(n, test_size),
                                                       n_test(n, test_size), Len(names), seed)],
             raised |-> "no", X |-> pm_X(df_filtered, ohe)]
pm_train(self, df, target_col, test_size, params, c, entropy, nan) ==
    IF pm_preprocess_raises(df) THEN [self |-> self, raised |-> "preprocess", X |-> NoneV]
    ELSE IF ~({"REGION", "CATEGORIA", target_col} \subseteq df.cols)
    THEN [self |-> self, raised |-> "KeyError", X |-> NoneV]
    ELSE
    LET df_filtered == dropna(pm_preprocess_data(df), {"REGION", "CATEGORIA", target_col})
        n == Len(df_filtered.rows)
        s1 == [self EXCEPT !.ohe = UnfittedOHE]
        ohe == FittedOHE(c, PMCategorical, fit_categories(df_filtered, PMCategorical))
        names == Numeric(InOrder(NumericFeatures, df_filtered.cols)) \o feature_names_out(ohe)
        X == pm_X(df_filtered, ohe)
        s2 == [s1 EXCEPT !.ohe = ohe, !.feature_columns = Columns(c, names)]
        kind == "RandomForestRegressor"
        seed == seed_of(params, 42, entropy)
        s3 == [s2 EXCEPT !.model = UnfittedModel(kind, n_estimators_of(params))]
        s4 == [s3 EXCEPT !.model = FittedModel(kind, n_estimators_of(params), c, names, seed)]
        s5 == [s4 EXCEPT !.metrics = Metrics(c, n_train(n, test_size), n_test(n, test_size),
                                             Len(names), seed)]
        nans == nan_rows(df_filtered)
    IN IF n = 0 THEN [self |-> s1, raised |-> "fit_transform", X |-> NoneV]
       ELSE IF split_raises(n, test_size)
       THEN [self |-> s2, raised |-> "train_test_split", X |-> X]
       ELSE IF fit_raises(params) THEN [self |-> s3, raised |-> "fit", X |-> X]
       ELSE IF nans > 0 /\ nan # "accepted" /\ (nan = "fit" \/ nans > n_test(n, test_size))
       THEN [self |-> s3, raised |-> "fit", X |-> X]
       ELSE IF nans > 0 /\ nan = "score" THEN [self |-> s4, raised |-> "score", X |-> X]
       ELSE [self |-> s5, raised |-> "no", X |-> X]

\* a prediction input: the keys the dict has and their values
Record(keys, ano, region, categoria, area) ==
    [keys |-> keys, ANO |-> ano, REGION |-> region, CATEGORIA |-> categoria, area |-> area]

NumericKeys == {"ANO", "S", "SB1", "area"}

\* the value predict puts in one column of the row it hands to the model:
\* a numeric key of the input, a one-hot column of the encoder (1 when the
\* input has that value; an unknown value gives 0 everywhere), or 0 for a
\* column the row lacks
cell_value_unknown_hot(rec, sample_cols, name) ==
    IF \A i \in 1..Len(sample_cols) : sample_cols[i] # name THEN 0
    ELSE IF name[2] = <<>> /\ name[1] \in NumericKeys THEN rec[name[1]]
    ELSE 1
cell_value_never_hot(rec, sample_cols, name) ==
    IF \A i \in 1..Len(sample_cols) : sample_cols[i] # name THEN 0
    ELSE IF name[2] = <<>> /\ name[1] \in NumericKeys THEN rec[name[1]]
    ELSE 0
cell_value(rec, sample_cols, name) ==
    IF \A i \in 1..Len(sample_cols) : sample_cols[i] # name THEN 0
    ELSE IF name[2] = <<>> /\ name[1] \in NumericKeys THEN rec[name[1]]
    ELSE IF rec[name[1]] = name[2] THEN 1 ELSE 0

aligned_sample_order(rec, sample_cols, feature_columns) ==
    [j \in 1..Len(sample_cols) |-> cell_value(rec, sample_cols, sample_cols[j])]
aligned(rec, sample_cols, feature_columns) ==
    [j \in 1..Len(feature_columns.names) |->
        cell_value(rec, sample_cols, feature_columns.names[j])]

Raised(kind) == [status |-> kind]
Returned(v) == [status |-> "ok", value |-> v]

\* CO2PredictionModel.predict
pm_predict(self, rec) ==
    IF self.model = NoneV \/ self.ohe = NoneV THEN Raised("not_trained")
    ELSE IF ~({"REGION", "CATEGORIA"} \subseteq rec.keys) THEN Raised("KeyError")
    ELSE IF ~self.ohe.fitted THEN Raised("not_fitted")
    ELSE
    LET sample_cols == Numeric(InOrder(NumericFeatures, rec.keys))
                          \o feature_names_out(self.ohe)
        x == aligned(rec, sample_cols, self.feature_columns)
    IN IF ~self.model.fitted THEN Raised("not_fitted")
       ELSE IF self.model.cols # self.feature_columns.names THEN Raised("ValueError")
       ELSE Returned([call |-> self.model.call, x |-> x])

\* CO2PredictionModel.get_feature_importance
pm_get_feature_importance(self) ==
    IF self.model = NoneV THEN Raised("not_trained")
    ELSE IF ~self.model.fitted THEN Raised("not_fitted")
    ELSE Returned(self.feature_columns.names)

\* CO2PredictionModel.get_model_info
pm_get_model_info(self) ==
    IF self.model = NoneV THEN Returned("not_trained") ELSE Returned("trained")

(***************************************************************************)
(* LandUseCO2Model                                                         *)
(***************************************************************************)
LUCategorical == <<"REGION", "CATEGORIA">>
\* the columns whose name holds one of the land-use keywords
LandUseColumns == <<"area">>

\* has feature_importances_ / accepts n_estimators
TreeModel(kind) == kind \in {"RandomForestRegressor", "GradientBoostingRegressor"}

model_class(model_type) ==
    CASE model_type = "random_forest" -> "RandomForestRegressor"
      [] model_type = "gradient_boosting" -> "GradientBoostingRegressor"
      [] model_type = "linear" -> "LinearRegression"
      [] OTHER -> "unsupported"

\* the feature matrix X of prepare_features: the numeric and the land-use
\* columns with fillna(0), then the one-hot columns
lum_X_no_fillna(df_clean, numeric, land, categorical, ohe) ==
    [i \in 1..Len(df_clean.rows) |->
        [j \in 1..Len(numeric \o land) |-> df_clean.rows[i][(numeric \o land)[j]]]
            \o (IF categorical = <<>> THEN <<>> ELSE transform_row(ohe, df_clean.rows[i]))]
lum_X(df_clean, numeric, land, categorical, ohe) ==
    [i \in 1..Len(df_clean.rows) |->
        [j \in 1..Len(numeric \o land) |-> fillna0(df_clean.rows[i][(numeric \o land)[j]])]
            \o (IF categorical = <<>> THEN <<>> ELSE transform_row(ohe, df_clean.rows[i]))]

\* LandUseCO2Model.prepare_features followed by the rest of train: the
\* object after the call and whether the call raised
lum_train(self, df, co2_column, model_type, test_size, params, c, entropy) ==
    LET categorical == InOrder(LUCategorical, df.cols)
        numeric == InOrder(NumericFeatures, df.cols)
        land == InOrder(LandUseColumns, df.cols)
    IN
    IF co2_column \notin df.cols THEN [self |-> self, raised |-> "KeyError", X |-> NoneV]
    ELSE
    LET df_clean == dropna(df, Range(categorical) \cup {co2_column})
        n == Len(df_clean.rows)
        fresh == self.ohe = NoneV
        s1 == IF categorical # <<>> /\ fresh THEN [self EXCEPT !.ohe = UnfittedOHE] ELSE self
        ohe == IF categorical = <<>> THEN self.ohe
               ELSE IF fresh THEN FittedOHE(c, categorical, fit_categories(df_clean, categorical))
               ELSE self.ohe
        encoded == IF categorical = <<>> THEN <<>> ELSE feature_names_out(ohe)
        names == Numeric(numeric) \o Numeric(land) \o encoded
        s2 == [s1 EXCEPT !.ohe = ohe, !.feature_columns = Columns(c, names)]
        s3 == [s2 EXCEPT !.scaler = FittedScaler(c, names)]
        kind == model_class(model_type)
        n_est == IF TreeModel(kind) THEN n_estimators_of(params) ELSE 0
        seed == IF TreeModel(kind) THEN seed_of(params, 42, entropy) ELSE 0
        X == lum_X(df_clean, numeric, land, categorical, ohe)
        s4 == [s3 EXCEPT !.model = UnfittedModel(kind, n_est)]
        s5 == [s4 EXCEPT !.model = FittedModel(kind, n_est, c, names, seed),
                         !.metrics = Metrics(c, n_train(n, test_size), n_test(n, test_size),
                                             Len(names), seed)]
    IN IF categorical # <<>> /\ n = 0 THEN [self |-> s1, raised |-> "fit_transform", X |-> NoneV]
       ELSE IF categorical # <<>> /\ ~fresh /\ ~self.ohe.fitted
       THEN [self |-> s1, raised |-> "not_fitted", X |-> NoneV]
       ELSE IF categorical # <<>> /\ ~fresh /\ self.ohe.cols # categorical
       THEN [self |-> s1, raised |-> "transform", X |-> NoneV]
       ELSE IF names = <<>> THEN [self |-> s1, raised |-> "concat", X |-> NoneV]
       ELSE IF split_raises(n, test_size)
       THEN [self |-> s2, raised |-> "train_test_split", X |-> X]
       ELSE IF kind = "unsupported" THEN [self |-> s3, raised |-> "model_type", X |-> X]
       ELSE IF kind = "LinearRegression" /\ params.given
       THEN [self |-> s3, raised |-> "TypeError", X |-> X]
       ELSE IF TreeModel(kind) /\ fit_raises(params) THEN [self |-> s4, raised |-> "fit", X |-> X]
       ELSE [self |-> s5, raised |-> "no", X |-> X]

\* LandUseCO2Model.predict
lum_predict(self, rec) ==
    IF self.model = NoneV THEN Raised("not_trained")
    ELSE
    LET numeric == InOrder(NumericFeatures, rec.keys)
        land == InOrder(LandUseColumns, rec.keys)
        cat_cols == InOrder(LUCategorical, rec.keys)
        encode == cat_cols # <<>> /\ self.ohe # NoneV
        sample_cols == Numeric(numeric) \o Numeric(land)
                          \o (IF encode THEN feature_names_out(self.ohe) ELSE <<>>)
    IN IF encode /\ ~self.ohe.fitted THEN Raised("not_fitted")
       ELSE IF encode /\ self.ohe.cols # cat_cols THEN Raised("ValueError")
       ELSE IF sample_cols = <<>> THEN Raised("ValueError")
       ELSE IF self.feature_columns = NoneV THEN Raised("TypeError")
       ELSE IF self.scaler = NoneV THEN Raised("AttributeError")
       ELSE IF ~self.scaler.fitted THEN Raised("not_fitted")
       ELSE IF self.scaler.cols # self.feature_columns.names THEN Raised("ValueError")
       ELSE IF ~self.model.fitted THEN Raised("not_fitted")
       ELSE IF Len(self.model.cols) # Len(self.feature_columns.names) THEN Raised("ValueError")
       ELSE Returned([call |-> self.model.call,
                      x |-> aligned(rec, sample_cols, self.feature_columns)])

\* LandUseCO2Model.get_feature_importance: hasattr is False on an estimator
\* without feature_importances_, and on an unfitted one (the property raises
\* NotFittedError, an AttributeError)
lum_get_feature_importance(self) ==
    IF self.model = NoneV THEN Raised("not_trained")
    ELSE IF ~TreeModel(self.model.kind) \/ ~self.model.fitted THEN Returned(<<>>)
    ELSE Returned(self.feature_columns.names)

\* save_model of either class raises on an object without a model
save_raises(self) == self.model = NoneV

\* the dict that save_model pickles, and the file that holds it (saved_by
\* remembers the object the file was written from)
pm_model_data(self) ==
    [model |-> self.model, ohe |-> self.ohe, feature_columns |-> self.feature_columns,
     metrics |-> self.metrics]
lum_model_data(self) ==
    [model |-> self.model, ohe |-> self.ohe, scaler |-> self.scaler,
     feature_columns |-> self.feature_columns, metrics |-> self.metrics]
Pickled(data, self) == [k |-> "file", data |-> data, saved_by |-> self]

\* load_model: every field is taken from the unpickled dict
pm_load_model_keeps_encoder(self, data) ==
    [self EXCEPT !.model = data.model, !.feature_columns = data.feature_columns,
                 !.metrics = data.metrics]
pm_load_model(self, data) ==
    [self EXCEPT !.model = data.model, !.ohe = data.ohe,
                 !.feature_columns = data.feature_columns, !.metrics = data.metrics]
lum_load_model(self, data) ==
    [self EXCEPT !.model = data.model, !.ohe = data.ohe, !.scaler = data.scaler,
                 !.feature_columns = data.feature_columns, !.metrics = data.metrics]

(***************************************************************************)
(* Queries of the analyzer.  An optional argument is NoneArg or Some(v).   *)
(* Every query gives back the analyzer it leaves behind together with its  *)
(* result.                                                                 *)
(***************************************************************************)
NoneArg == [k |-> "None"]
Some(v) == [k |-> "some", v |-> v]

\* a numeric cell in tenths, so that 2020 == 2020.0
Tenths(c) == IF c.t = "int" THEN 10 * c.v ELSE c.v

\* DataFrame.empty
Empty(df) == df.cols = {} \/ df.rows = <<>>

\* the base table filter_data selects for category_type
base_table_unfiltered(self, category_type) == self.df
base_table(self, category_type) ==
    IF category_type = Some("aire_emisiones") THEN self.df_aire_emisiones
    ELSE IF category_type = Some("bosque_captura") THEN self.df_bosque_captura
    ELSE IF category_type = Some("causas_factores") THEN self.df_causas_factores
    ELSE self.df

\* df[df['ANO'] == year], df[df['ANO'] >= start_year], df[df['ANO'] <= end_year]:
\* a comparison with NaN is False
year_eq(df, year) ==
    Frame(df.cols, SelectSeq(df.rows,
        LAMBDA row : ~IsNull(row.ANO) /\ Tenths(row.ANO) = 10 * year))
year_ge(df, year) ==
    Frame(df.cols, SelectSeq(df.rows,
        LAMBDA row : ~IsNull(row.ANO) /\ Tenths(row.ANO) >= 10 * year))
year_le_strict(df, year) ==
    Frame(df.cols, SelectSeq(df.rows,
        LAMBDA row : ~IsNull(row.ANO) /\ Tenths(row.ANO) < 10 * year))
year_le(df, year) ==
    Frame(df.cols, SelectSeq(df.rows,
        LAMBDA row : ~IsNull(row.ANO) /\ Tenths(row.ANO) <= 10 * year))

\* df[df['REGION'] == region]
region_eq(df, region) ==
    Frame(df.cols, SelectSeq(df.rows, LAMBDA row : row.REGION.s = region))

\* the rows filter_data keeps of the base table
filtered(df, year, region, start_year, end_year) ==
    LET by_year ==
            IF year # NoneArg /\ Has(df, "ANO") THEN year_eq(df, year.v)
            ELSE IF (start_year # NoneArg \/ end_year # NoneArg) /\ Has(df, "ANO")
            THEN LET from == IF start_year # NoneArg THEN year_ge(df, start_year.v) ELSE df
                 IN IF end_year # NoneArg THEN year_le(from, end_year.v) ELSE from
            ELSE df
    IN IF region # NoneArg /\ Has(by_year, "REGION") THEN region_eq(by_year, region.v)
       ELSE by_year

\* CO2DataAnalyzer.filter_data: works on a copy of the base table
filter_data_in_place(self, year, region, start_year, end_year, category_type) ==
    LET res == filtered(base_table(self, category_type), year, region, start_year, end_year)
    IN [self |-> [self EXCEPT !.df = res], result |-> res]
filter_data(self, year, region, start_year, end_year, category_type) ==
    LET res == filtered(base_table(self, category_type), year, region, start_year, end_year)
    IN [self |-> self, result |-> res]

\* the text of a unit, code point by code point
UnitCodes(u) ==
    CASE u = "GefCO2" -> <<71, 101, 102, 67, 79, 50>>
      [] u = "gefco2" -> <<103, 101, 102, 99, 111, 50>>
      [] u = "CF" -> <<67, 70>>
      [] u = "Cf" -> <<67, 102>>
      [] u = "kg" -> <<107, 103>>
      [] u = "toneladas de leña/habitante/año" ->
            <<116, 111, 110, 101, 108, 97, 100, 97, 115, 32, 100, 101, 32, 108, 101, 241,
              97, 47, 104, 97, 98, 105, 116, 97, 110, 116, 101, 47, 97, 241, 111>>
      [] OTHER -> <<>>

\* one component of a group key, as something that can be ordered: the text
\* of a str, or the number of a year
KeyPart(col, cell) ==
    IF col = "UNIDAD_F" THEN UnitCodes(cell)
    ELSE IF col = "ANO" THEN <<Tenths(cell)>>
    ELSE cell.s

KeyOf(row, by) == [j \in 1..Len(by) |-> KeyPart(by[j], row[by[j]])]

RECURSIVE KeyLess(_, _)
\* tuple order of group keys
KeyLess(a, b) ==
    IF a = <<>> \/ b = <<>> THEN FALSE
    ELSE IF Head(a) # Head(b) THEN LexLess(Head(a), Head(b))
    ELSE KeyLess(Tail(a), Tail(b))

RECURSIVE SortKeys(_)
SortKeys(S) ==
    IF S = {} THEN <<>>
    ELSE LET m == CHOOSE x \in S : \A y \in S \ {x} : KeyLess(x, y)
         IN <<m>> \o SortKeys(S \ {m})

RECURSIVE SumValues(_)
\* Series.sum() of VALOR_F, NaN skipped (in tenths)
SumValues(rows) ==
    IF rows = <<>> THEN 0
    ELSE (IF IsNull(Head(rows).VALOR_F) THEN 0 ELSE Tenths(Head(rows).VALOR_F))
            + SumValues(Tail(rows))

\* Series.count() of VALOR_F
CountValues(rows) == Len(SelectSeq(rows, LAMBDA row : ~IsNull(row.VALOR_F)))

\* one row of an aggregation; mean, median, std, min and max are functions
\* of the same group
Group(df, by, key) ==
    LET members == SelectSeq(df.rows, LAMBDA row : KeyOf(row, by) = key)
    IN [key |-> key, count |-> CountValues(members), total |-> SumValues(members)]

\* df.groupby(by)['VALOR_F'].agg(...).reset_index(): groups in first-seen order
groupby_unsorted(df, by) ==
    LET keys == Unique([i \in 1..Len(df.rows) |-> KeyOf(df.rows[i], by)])
    IN [g \in 1..Len(keys) |-> Group(df, by, keys[g])]
\* df.groupby(by)['VALOR_F'].agg(...).reset_index(): groups sorted by key
groupby(df, by) ==
    LET keys == SortKeys({KeyOf(df.rows[i], by) : i \in 1..Len(df.rows)})
    IN [g \in 1..Len(keys) |-> Group(df, by, keys[g])]

\* DataFrame.dropna(subset=...) on the analyzer's table, whose unit cells are
\* never missing
dropna_subset_keys_only(df, subset) == dropna(df, subset \ {"UNIDAD_F", "VALOR_F"})
dropna_subset(df, subset) == dropna(df, subset \ {"UNIDAD_F"})

\* the common shape of the aggregations: [] when a checked column is absent or
\* the table is empty, KeyError when dropna or the selection names an absent
\* column, else the groups
aggregate(df, checked, subset, by) ==
    IF ~(checked \subseteq df.cols) \/ Empty(df) THEN Returned(<<>>)
    ELSE IF ~(subset \subseteq df.cols) THEN Raised("KeyError")
    ELSE Returned(groupby(dropna_subset(df, subset), by))

get_stats_by_region(self, year, category_type) ==
    LET f == filter_data(self, year, NoneArg, NoneArg, NoneArg, category_type)
    IN [self |-> f.self,
        result |-> aggregate(f.result, {"REGION", "VALOR_F"}, {"REGION", "VALOR_F"},
                             <<"REGION">>)]

get_stats_by_category(self, year, region) ==
    LET f == filter_data(self, year, region, NoneArg, NoneArg, NoneArg)
    IN [self |-> f.self,
        result |-> aggregate(f.result, {"CATEGORIA", "VALOR_F"}, {"CATEGORIA", "VALOR_F"},
                             <<"CATEGORIA">>)]

get_stats_by_region_category(self, year) ==
    LET f == filter_data(self, year, NoneArg, NoneArg, NoneArg, NoneArg)
    IN [self |-> f.self,
        result |-> aggregate(f.result, {"REGION", "CATEGORIA", "VALOR_F"},
                             {"REGION", "CATEGORIA", "VALOR_F"}, <<"REGION", "CATEGORIA">>)]

\* checks REGION and UNIDAD_F only, then names VALOR_F
get_emissions_by_unit_type(self, region, year, category_type) ==
    LET f == filter_data(self, year, region, NoneArg, NoneArg, category_type)
    IN [self |-> f.self,
        result |-> aggregate(f.result, {"REGION", "UNIDAD_F"},
                             {"REGION", "UNIDAD_F", "VALOR_F"}, <<"REGION", "UNIDAD_F">>)]

get_time_series_by_region(self, region, category_type) ==
    LET f == filter_data(self, NoneArg, region, NoneArg, NoneArg, category_type)
    IN [self |-> f.self,
        result |-> aggregate(f.result, {"ANO", "VALOR_F"}, {"ANO", "VALOR_F"}, <<"ANO">>)]

\* sort_values('total_emissions', ascending=False) with the default
\* kind='quicksort', which is not stable: every order that is descending in
\* the total can come out, whatever the order of equal totals was
Perms(n) == {p \in [1..n -> 1..n] : \A i, j \in 1..n : i # j => p[i] # p[j]}
sort_values_desc(groups) ==
    {s \in {[i \in 1..Len(groups) |-> groups[p[i]]] : p \in Perms(Len(groups))} :
        \A i \in 1..(Len(s) - 1) : s[i].total >= s[i + 1].total}

\* DataFrame.head(n), n >= 0
head(s, n) == SubSeq(s, 1, IF n < Len(s) THEN n ELSE Len(s))

\* CO2DataAnalyzer.get_top_emitters: the outcomes the call can have
get_top_emitters(self, n, by, year, category_type) ==
    LET f == filter_data(self, year, NoneArg, NoneArg, NoneArg, category_type)
        df == f.result
    IN IF ~({by, "VALOR_F"} \subseteq df.cols) \/ Empty(df)
       THEN {[self |-> f.self, result |-> Returned(<<>>)]}
       ELSE {[self |-> f.self, result |-> Returned(head(s, n))] :
                s \in sort_values_desc(groupby(dropna_subset(df, {by, "VALOR_F"}), <<by>>))}

\* one entry of get_category_summary: df['VALOR_F'] is read whenever the
\* partition is not empty
summary_raises(df) == ~Empty(df) /\ ~Has(df, "VALOR_F")
summary_of(df) ==
    [total_records |-> Len(df.rows), total |-> IF Empty(df) THEN 0 ELSE SumValues(df.rows)]

\* CO2DataAnalyzer.get_category_summary
get_category_summary(self) ==
    [self |-> self,
     result |->
        IF \/ summary_raises(self.df_aire_emisiones)
           \/ summary_raises(self.df_bosque_captura)
           \/ summary_raises(self.df_causas_factores)
        THEN Raised("KeyError")
        ELSE Returned([aire_emisiones |-> summary_of(self.df_aire_emisiones),
                       bosque_captura |-> summary_of(self.df_bosque_captura),
                       causas_factores |-> summary_of(self.df_causas_factores)])]

\* CO2DataAnalyzer.get_general_stats: every column access is guarded
get_general_stats(self, year, region, category_type) ==
    LET f == filter_data(self, year, region, NoneArg, NoneArg, category_type)
        df == f.result
    IN [self |-> f.self,
        result |-> Returned([total_records |-> Len(df.rows),
                             columns |-> df.cols,
                             total |-> IF Has(df, "VALOR_F") /\ ~Empty(df)
                                       THEN Some(SumValues(df.rows)) ELSE NoneArg])]

\* CO2DataAnalyzer.get_available_categories
get_available_categories(self) ==
    IF Has(self.df, "CATEGORIA")
    THEN LET present == SelectSeq(self.df.rows, LAMBDA row : ~IsNull(row.CATEGORIA))
         IN Sorted(Unique([i \in 1..Len(present) |-> present[i].CATEGORIA.s]))
    ELSE <<>>

\* CO2DataAnalyzer.get_available_years: sorted([int(y) for y in unique years])
get_available_years(self) ==
    IF Has(self.df, "ANO")
    THEN LET present == SelectSeq(self.df.rows, LAMBDA row : ~IsNull(row.ANO))
             years == Unique([i \in 1..Len(present) |-> Tenths(present[i].ANO)])
         IN Sorted([i \in 1..Len(years) |-> <<years[i] \div 10>>])
    ELSE <<>>

\* CO2DataAnalyzer.get_dashboard_data: the outcomes the call can have; it
\* raises when one of its parts raises
get_dashboard_data(self, year, region, category_type) ==
    LET general == get_general_stats(self, year, region, category_type)
        summary == get_category_summary(self)
        regions == get_stats_by_region(self, year, category_type)
        categories == get_stats_by_category(self, year, region)
        series == get_time_series_by_region(self, region, category_type)
        units == get_emissions_by_unit_type(self, region, year, category_type)
    IN IF summary.result.status # "ok" \/ units.result.status # "ok"
       THEN {[self |-> general.self, result |-> Raised("KeyError")]}
       ELSE {[self |-> top.self,
              result |-> Returned([general_stats |-> general.result.value,
                                   category_summary |-> summary.result.value,
                                   region_stats |-> regions.result.value,
                                   category_stats |-> categories.result.value,
                                   time_series |-> series.result.value,
                                   top_emitters |-> top.result.value,
                                   emissions_by_unit |-> units.result.value,
                                   regions |-> get_available_regions(self),
                                   categories |-> get_available_categories(self),
                                   years |-> get_available_years(self)])] :
                top \in get_top_emitters(self, 10, "REGION", year, category_type)}

(***************************************************************************)
(* The normaliser as a state machine: a raw string is drawn, normalised,   *)
(* and the result is normalised again.                                     *)
(***************************************************************************)
NormAlphabet == {32, 65, 97, 225, 312, 769}

\* the service before startup: no merged table, an empty data directory
ApiIdle ==
    /\ merged_df = NoneV
    /\ disk = [co2 |-> NoFile, land_use |-> NoFile]
    /\ resp = [op |-> "idle"]

LoadIdle ==
    /\ raw = EmptyFrame
    /\ analyzer = NoAnalyzer
    /\ reloaded = NoAnalyzer
    /\ lout = [op |-> "idle"]

NormIdle == r = <<>> /\ nr = <<>> /\ nnr = <<>> /\ npc = "idle"

NormInit ==
    /\ r \in StringsUpTo(NormAlphabet, MaxLen)
    /\ nr = <<>>
    /\ nnr = <<>>
    /\ npc = "raw"
    /\ LoadIdle
    /\ TrainIdle
    /\ ApiIdle

Normalize ==
    /\ npc = "raw"
    /\ nr' = normalize_region(r)
    /\ npc' = "once"
    /\ UNCHANGED <<r, nnr>>
    /\ UNCHANGED loadVars
    /\ UNCHANGED trainVars
    /\ UNCHANGED apiVars

Renormalize ==
    /\ npc = "once"
    /\ nnr' = normalize_region(nr)
    /\ npc' = "twice"
    /\ UNCHANGED <<r, nr>>
    /\ UNCHANGED loadVars
    /\ UNCHANGED trainVars
    /\ UNCHANGED apiVars

(***************************************************************************)
(* The loader as a state machine: a raw frame is drawn, an analyzer is     *)
(* built from it, queried, and a second analyzer is built from the first   *)
(* one's canonical table.                                                  *)
(***************************************************************************)
RegionCells ==
    { StrCell(<<98, 225>>),                  \* "bá"
      StrCell(<<66, 65>>),                   \* "BA"
      StrCell(<<32, 98, 97, 32>>),           \* " ba "
      StrCell(<<65, 97, 769>>),              \* "Aa" + COMBINING ACUTE ACCENT
      StrCell(<<97, 98>>),                   \* "ab"
      StrCell(<<312>>),                      \* LATIN SMALL LETTER KRA
      StrCell(<<110, 97, 110, 32>>),         \* "nan "
      StrCell(<<67, 111, 108, 111, 109, 98, 105, 97, 32, 84>>),   \* "Colombia T"
      StrCell(<<>>),
      NaN,
      None }

UnitCells ==
    { "GefCO2", "CF", "Cf", "toneladas de leña/habitante/año",
      "toneladas de masa seca por hectarea", "gefco2", "kg" }

YearCells ==
    { IntCell(2021),
      FloatCell(20195),                      \* 2019.5
      StrCell(<<50, 48, 50, 48, 46>>),       \* "2020."
      StrCell(<<50, 48, 46, 46>>),           \* "20.."
      StrCell(<<110, 97, 110>>),             \* "nan"
      StrCell(<<49, 44, 57>>),               \* "1,9"
      StrCell(<<>>),
      NaN }

ValueCells ==
    { IntCell(100),
      FloatCell(15),                         \* 1.5
      StrCell(<<49, 44, 48, 48, 48>>),       \* "1,000"
      StrCell(<<50, 46, 53>>),               \* "2.5"
      StrCell(<<49, 50, 120>>),              \* "12x"
      StrCell(<<>>),
      NaN }

RawRow(y, g, v, u) == [ANO |-> y, REGION |-> g, VALOR_F |-> v, UNIDAD_F |-> u]

RawRows ==
    {RawRow(IntCell(2020), g, IntCell(100), "GefCO2") : g \in RegionCells}
    \cup {RawRow(IntCell(2020), StrCell(<<97, 98>>), IntCell(100), u) : u \in UnitCells}
    \cup {RawRow(y, StrCell(<<66, 65>>), IntCell(7), "CF") : y \in YearCells}
    \cup {RawRow(IntCell(2020), StrCell(<<98, 225>>), v, "Cf") : v \in ValueCells}

ColumnSets ==
    { {"ANO", "REGION", "VALOR_F", "UNIDAD_F"},
      {"ANO", "VALOR_F", "UNIDAD_F"},
      {"ANO", "REGION", "VALOR_F"},
      {"REGION", "UNIDAD_F"} }

\* a frame with a RangeIndex: row i carries the label i - 1
MakeFrame(cols, cells) ==
    Frame(cols,
          [i \in 1..Len(cells) |->
              [idx |-> i - 1,
               ANO |-> IF "ANO" \in cols THEN cells[i].ANO ELSE Absent,
               REGION |-> IF "REGION" \in cols THEN cells[i].REGION ELSE Absent,
               VALOR_F |-> IF "VALOR_F" \in cols THEN cells[i].VALOR_F ELSE Absent,
               UNIDAD_F |-> IF "UNIDAD_F" \in cols THEN cells[i].UNIDAD_F ELSE Absent]])

RawFrames ==
    {MakeFrame(cols, cells) : cols \in ColumnSets, cells \in StringsUpTo(RawRows, MaxRows)}

LoadInit ==
    /\ raw \in RawFrames
    /\ analyzer = NoAnalyzer
    /\ reloaded = NoAnalyzer
    /\ lout = [op |-> "init"]
    /\ NormIdle
    /\ TrainIdle
    /\ ApiIdle

\* analyzer = CO2DataAnalyzer(df): a raise leaves no analyzer behind
Load ==
    /\ lout.op = "init"
    /\ IF preprocess_raises(raw)
       THEN /\ lout' = [op |-> "load", status |-> "raised"]
            /\ UNCHANGED analyzer
       ELSE /\ analyzer' = CO2DataAnalyzer(raw)
            /\ lout' = [op |-> "load", status |-> "ok"]
    /\ UNCHANGED <<raw, reloaded>>
    /\ UNCHANGED normVars
    /\ UNCHANGED apiVars
    /\ UNCHANGED trainVars

\* analyzer.get_available_regions()
GetAvailableRegions ==
    /\ analyzer.state = "loaded"
    /\ lout.op \in {"load", "reload"}
    /\ lout' = [op |-> "regions", status |-> "ok", value |-> get_available_regions(analyzer)]
    /\ UNCHANGED <<raw, analyzer, reloaded>>
    /\ UNCHANGED normVars
    /\ UNCHANGED apiVars
    /\ UNCHANGED trainVars

\* CO2DataAnalyzer(analyzer.df)
Reload ==
    /\ analyzer.state = "loaded"
    /\ lout.op = "load"
    /\ IF preprocess_raises(analyzer.df)
       THEN /\ lout' = [op |-> "reload", status |-> "raised"]
            /\ UNCHANGED reloaded
       ELSE /\ reloaded' = CO2DataAnalyzer(analyzer.df)
            /\ lout' = [op |-> "reload", status |-> "ok"]
    /\ UNCHANGED <<raw, analyzer>>
    /\ UNCHANGED normVars
    /\ UNCHANGED apiVars
    /\ UNCHANGED trainVars

LoadNext == Load \/ GetAvailableRegions \/ Reload

SpecLoad == LoadInit /\ [][LoadNext]_vars

NormNext == Normalize \/ Renormalize

SpecNorm == NormInit /\ [][NormNext]_vars

(***************************************************************************)
(* The queries as a state machine: an analyzer is built from a raw frame   *)
(* and then queried.                                                       *)
(***************************************************************************)
QueryRow(y, g, k, v, u) ==
    [ANO |-> y, REGION |-> StrCell(g), CATEGORIA |-> k, VALOR_F |-> v, UNIDAD_F |-> u]

QueryRows ==
    { QueryRow(IntCell(2020), <<65>>, StrCell(<<99>>), IntCell(100), "GefCO2"),
      QueryRow(IntCell(2021), <<66>>, StrCell(<<99>>), IntCell(100), "GefCO2"),
      QueryRow(IntCell(2020), <<66>>, StrCell(<<100>>), IntCell(300), "CF"),
      QueryRow(NaN, <<65>>, StrCell(<<100>>), IntCell(100), "kg"),
      QueryRow(IntCell(2021), <<65>>, StrCell(<<99>>), NaN,
               "toneladas de leña/habitante/año"),
      QueryRow(IntCell(2020), <<66>>, NaN, IntCell(300), "gefco2") }

QueryColumnSets ==
    { {"ANO", "REGION", "CATEGORIA", "VALOR_F", "UNIDAD_F"},
      {"REGION", "CATEGORIA", "VALOR_F", "UNIDAD_F"},
      {"ANO", "CATEGORIA", "VALOR_F", "UNIDAD_F"},
      {"ANO", "REGION", "VALOR_F", "UNIDAD_F"},
      {"ANO", "REGION", "CATEGORIA", "UNIDAD_F"},
      {"ANO", "REGION", "CATEGORIA", "VALOR_F"} }

MakeQueryFrame(cols, cells) ==
    Frame(cols,
          [i \in 1..Len(cells) |->
              [idx |-> i - 1,
               ANO |-> IF "ANO" \in cols THEN cells[i].ANO ELSE Absent,
               REGION |-> IF "REGION" \in cols THEN cells[i].REGION ELSE Absent,
               CATEGORIA |-> IF "CATEGORIA" \in cols THEN cells[i].CATEGORIA ELSE Absent,
               VALOR_F |-> IF "VALOR_F" \in cols THEN cells[i].VALOR_F ELSE Absent,
               UNIDAD_F |-> IF "UNIDAD_F" \in cols THEN cells[i].UNIDAD_F ELSE Absent]])

QueryFrames ==
    {MakeQueryFrame(cols, cells) :
        cols \in QueryColumnSets, cells \in StringsUpTo(QueryRows, MaxQueryRows)}

YearArgs == {NoneArg, Some(2020)}
StartYearArgs == {NoneArg, Some(2020)}
EndYearArgs == {NoneArg, Some(2020), Some(2021)}
RegionArgs == {NoneArg, Some(<<65>>)}
CategoryTypeArgs ==
    {NoneArg, Some("aire_emisiones"), Some("bosque_captura"), Some("causas_factores"),
     Some("otro")}
TopNs == {0, 1, 2}
TopBys == {"REGION", "CATEGORIA"}

QueryInit ==
    /\ raw \in QueryFrames
    /\ analyzer = NoAnalyzer
    /\ reloaded = NoAnalyzer
    /\ lout = [op |-> "init"]
    /\ NormIdle
    /\ TrainIdle
    /\ ApiIdle

\* a query is made of a loaded analyzer
Ready == analyzer.state = "loaded" /\ lout.op \in {"load", "summary"}

QueryFrame ==
    /\ UNCHANGED <<raw, reloaded>>
    /\ UNCHANGED normVars
    /\ UNCHANGED apiVars
    /\ UNCHANGED trainVars

\* analyzer.filter_data(year, region, start_year, end_year, category_type)
FilterData ==
    /\ Ready
    /\ \E year \in YearArgs, region \in RegionArgs, start_year \in StartYearArgs,
          end_year \in EndYearArgs, category_type \in CategoryTypeArgs :
          LET out == filter_data(analyzer, year, region, start_year, end_year, category_type)
          IN /\ analyzer' = out.self
             /\ lout' = [op |-> "filter", year |-> year, region |-> region,
                         start_year |-> start_year, end_year |-> end_year,
                         category_type |-> category_type, result |-> Returned(out.result)]
    /\ QueryFrame

\* analyzer.get_general_stats(year, region, category_type)
GeneralStats ==
    /\ Ready
    /\ \E year \in YearArgs, region \in RegionArgs, category_type \in CategoryTypeArgs :
          LET out == get_general_stats(analyzer, year, region, category_type)
          IN /\ analyzer' = out.self
             /\ lout' = [op |-> "general", year |-> year, region |-> region,
                         category_type |-> category_type, result |-> out.result]
    /\ QueryFrame

\* analyzer.get_category_summary()
CategorySummary ==
    /\ Ready
    /\ LET out == get_category_summary(analyzer)
       IN /\ analyzer' = out.self
          /\ lout' = [op |-> "summary", result |-> out.result]
    /\ QueryFrame

\* analyzer.get_stats_by_region(year, category_type)
StatsByRegion ==
    /\ Ready
    /\ \E year \in YearArgs, category_type \in CategoryTypeArgs :
          LET out == get_stats_by_region(analyzer, year, category_type)
          IN /\ analyzer' = out.self
             /\ lout' = [op |-> "group", by |-> <<"REGION">>, year |-> year,
                         region |-> NoneArg, category_type |-> category_type,
                         result |-> out.result]
    /\ QueryFrame

\* analyzer.get_stats_by_category(year, region)
StatsByCategory ==
    /\ Ready
    /\ \E year \in YearArgs, region \in RegionArgs :
          LET out == get_stats_by_category(analyzer, year, region)
          IN /\ analyzer' = out.self
             /\ lout' = [op |-> "group", by |-> <<"CATEGORIA">>, year |-> year,
                         region |-> region, category_type |-> NoneArg,
                         result |-> out.result]
    /\ QueryFrame

\* analyzer.get_stats_by_region_category(year)
StatsByRegionCategory ==
    /\ Ready
    /\ \E year \in YearArgs :
          LET out == get_stats_by_region_category(analyzer, year)
          IN /\ analyzer' = out.self
             /\ lout' = [op |-> "group", by |-> <<"REGION", "CATEGORIA">>, year |-> year,
                         region |-> NoneArg, category_type |-> NoneArg,
                         result |-> out.result]
    /\ QueryFrame

\* analyzer.get_emissions_by_unit_type(region, year, category_type)
EmissionsByUnit ==
    /\ Ready
    /\ \E year \in YearArgs, region \in RegionArgs,
          category_type \in CategoryTypeArgs \ {NoneArg} :
          LET out == get_emissions_by_unit_type(analyzer, region, year, category_type)
          IN /\ analyzer' = out.self
             /\ lout' = [op |-> "group", by |-> <<"REGION", "UNIDAD_F">>, year |-> year,
                         region |-> region, category_type |-> category_type,
                         result |-> out.result]
    /\ QueryFrame

\* analyzer.get_time_series_by_region(region, category_type)
TimeSeries ==
    /\ Ready
    /\ \E region \in RegionArgs, category_type \in CategoryTypeArgs :
          LET out == get_time_series_by_region(analyzer, region, category_type)
          IN /\ analyzer' = out.self
             /\ lout' = [op |-> "group", by |-> <<"ANO">>, year |-> NoneArg,
                         region |-> region, category_type |-> category_type,
                         result |-> out.result]
    /\ QueryFrame

\* analyzer.get_top_emitters(n, by, year, category_type)
TopEmitters ==
    /\ Ready
    /\ \E n \in TopNs, by \in TopBys, year \in YearArgs, category_type \in CategoryTypeArgs :
          \E out \in get_top_emitters(analyzer, n, by, year, category_type) :
             /\ analyzer' = out.self
             /\ lout' = [op |-> "top", n |-> n, by |-> <<by>>, year |-> year,
                         region |-> NoneArg, category_type |-> category_type,
                         result |-> out.result]
    /\ QueryFrame

\* get_available_regions(), get_available_categories(), get_available_years()
AvailableValues ==
    /\ Ready
    /\ analyzer' = analyzer
    /\ lout' = [op |-> "available",
                result |-> Returned([regions |-> get_available_regions(analyzer),
                                     categories |-> get_available_categories(analyzer),
                                     years |-> get_available_years(analyzer)])]
    /\ QueryFrame

\* analyzer.get_dashboard_data(year, region, category_type)
Dashboard ==
    /\ Ready
    /\ \E year \in YearArgs, region \in RegionArgs, category_type \in CategoryTypeArgs :
          \E out \in get_dashboard_data(analyzer, year, region, category_type) :
             /\ analyzer' = out.self
             /\ lout' = [op |-> "dashboard", year |-> year, region |-> region,
                         category_type |-> category_type, result |-> out.result]
    /\ QueryFrame

QueryNext ==
    \/ Load
    \/ FilterData
    \/ GeneralStats
    \/ CategorySummary
    \/ StatsByRegion
    \/ StatsByCategory
    \/ StatsByRegionCategory
    \/ EmissionsByUnit
    \/ TimeSeries
    \/ TopEmitters
    \/ AvailableValues
    \/ Dashboard

SpecQuery == QueryInit /\ [][QueryNext]_vars

(***************************************************************************)
(* The trainers as a state machine: train, predict, get_feature_importance,*)
(* get_model_info, save_model and load_model on the two trainer objects.   *)
(***************************************************************************)
TrainRow(g, k, v, y, a) == [REGION |-> g, CATEGORIA |-> k, VALOR_F |-> v, ANO |-> y, area |-> a]

TrainRows ==
    { TrainRow(StrCell(<<65>>), StrCell(<<99>>), FloatCell(100), FloatCell(20200), FloatCell(50)),
      TrainRow(StrCell(<<66>>), StrCell(<<99>>), FloatCell(200), NaN, FloatCell(70)),
      TrainRow(StrCell(<<66>>), NaN, NaN, FloatCell(20210), NaN),
      TrainRow(StrCell(<<65>>), StrCell(<<99>>), StrCell(<<120>>), FloatCell(20200), FloatCell(50)) }

TrainColumnSets ==
    { {"ANO", "REGION", "CATEGORIA", "VALOR_F", "area"},
      {"ANO", "REGION", "VALOR_F", "area"},
      {"ANO", "REGION", "CATEGORIA", "area"} }

MakeTrainFrame(cols, cells) ==
    Frame(cols,
          [i \in 1..Len(cells) |->
              [idx |-> i - 1,
               ANO |-> IF "ANO" \in cols THEN cells[i].ANO ELSE Absent,
               REGION |-> IF "REGION" \in cols THEN cells[i].REGION ELSE Absent,
               CATEGORIA |-> IF "CATEGORIA" \in cols THEN cells[i].CATEGORIA ELSE Absent,
               VALOR_F |-> IF "VALOR_F" \in cols THEN cells[i].VALOR_F ELSE Absent,
               area |-> IF "area" \in cols THEN cells[i].area ELSE Absent]])

TrainFrames ==
    {MakeTrainFrame(cols, cells) :
        cols \in TrainColumnSets, cells \in StringsUpTo(TrainRows, MaxTrainRows)}

\* the land-use trainer is fed a merge of the analyzer's canonical table,
\* whose value column is already float
MergedFrames ==
    {df \in TrainFrames :
        Has(df, "VALOR_F") => \A i \in 1..Len(df.rows) : df.rows[i].VALOR_F.t # "str"}

TestSizes == {20}
ModelParams == {NoParams, NEstimators(0)}
\* what the system entropy can seed an estimator with
Entropy == {1, 2}
\* the entropy is read when fit seeds an estimator that was given parameters
Draws(params) == IF params.given /\ ~fit_raises(params) THEN Entropy ELSE {1}
\* the build's treatment of NaN shows on a table with a missing numeric value
Builds(df) ==
    IF \E i \in 1..Len(df.rows) : \E c \in Range(InOrder(NumericFeatures, df.cols)) :
          IsNull(df.rows[i][c])
    THEN NanOutcomes ELSE {"accepted"}
ModelTypes == {"random_forest", "linear", "svm"}

\* the first record has the fields of the first of TrainRows
PredictRecords ==
    { Record({"ANO", "REGION", "CATEGORIA", "area"},
             FloatCell(20200), <<65>>, <<99>>, FloatCell(50)),
      Record({"ANO", "REGION", "CATEGORIA", "area"},
             FloatCell(20200), <<90>>, <<99>>, FloatCell(50)),
      Record({"ANO", "REGION", "CATEGORIA", "area"},
             FloatCell(20200), <<65>>, <<122>>, FloatCell(50)),
      Record({"ANO", "REGION", "area"}, FloatCell(20200), <<65>>, <<>>, FloatCell(50)),
      Record({"ANO"}, FloatCell(20200), <<>>, <<>>, FloatCell(0)) }

TrainInit ==
    /\ TrainIdle
    /\ NormIdle
    /\ LoadIdle
    /\ ApiIdle

Succeed(who, what) == [succeeded EXCEPT ![who][what] = TRUE]

\* prediction_model.train(df, test_size=..., **model_params)
TrainCO2 ==
    /\ calls < MaxCalls
    /\ \E df \in TrainFrames, test_size \in TestSizes, params \in ModelParams :
       \E entropy \in Draws(params), nan \in Builds(df) :
          LET res == pm_train(pm, df, "VALOR_F", test_size, params, calls + 1, entropy, nan) IN
          /\ pm' = res.self
          /\ succeeded' = IF res.raised = "no" THEN Succeed("co2", "train") ELSE succeeded
          /\ tout' = [op |-> "train", who |-> "co2", status |-> res.raised,
                      before |-> pm, df |-> df, X |-> res.X]
    /\ calls' = calls + 1
    /\ UNCHANGED <<lum, files>>
    /\ UNCHANGED normVars
    /\ UNCHANGED apiVars
    /\ UNCHANGED loadVars

\* land_use_model.train(merged_df, model_type=..., test_size=..., **model_params)
TrainLandUse ==
    /\ calls < MaxCalls
    /\ \E df \in MergedFrames, model_type \in ModelTypes, test_size \in TestSizes,
          params \in ModelParams :
       \E entropy \in Draws(params) :
          LET res == lum_train(lum, df, "VALOR_F", model_type, test_size, params, calls + 1,
                               entropy) IN
          /\ lum' = res.self
          /\ succeeded' = IF res.raised = "no" THEN Succeed("land_use", "train") ELSE succeeded
          /\ tout' = [op |-> "train", who |-> "land_use", status |-> res.raised,
                      before |-> lum, df |-> df, X |-> res.X]
    /\ calls' = calls + 1
    /\ UNCHANGED <<pm, files>>
    /\ UNCHANGED normVars
    /\ UNCHANGED apiVars
    /\ UNCHANGED loadVars

\* prediction_model.predict(input_data)
PredictCO2 ==
    /\ \E rec \in PredictRecords :
          tout' = [op |-> "predict", who |-> "co2", rec |-> rec, result |-> pm_predict(pm, rec)]
    /\ UNCHANGED <<pm, lum, files, calls, succeeded>>
    /\ UNCHANGED normVars
    /\ UNCHANGED apiVars
    /\ UNCHANGED loadVars

\* land_use_model.predict(input_data)
PredictLandUse ==
    /\ \E rec \in PredictRecords :
          tout' = [op |-> "predict", who |-> "land_use", rec |-> rec,
                   result |-> lum_predict(lum, rec)]
    /\ UNCHANGED <<pm, lum, files, calls, succeeded>>
    /\ UNCHANGED normVars
    /\ UNCHANGED apiVars
    /\ UNCHANGED loadVars

\* prediction_model.get_feature_importance()
FeatureImportanceCO2 ==
    /\ tout' = [op |-> "importance", who |-> "co2", result |-> pm_get_feature_importance(pm)]
    /\ UNCHANGED <<pm, lum, files, calls, succeeded>>
    /\ UNCHANGED normVars
    /\ UNCHANGED apiVars
    /\ UNCHANGED loadVars

\* land_use_model.get_feature_importance()
FeatureImportanceLandUse ==
    /\ tout' = [op |-> "importance", who |-> "land_use",
                result |-> lum_get_feature_importance(lum)]
    /\ UNCHANGED <<pm, lum, files, calls, succeeded>>
    /\ UNCHANGED normVars
    /\ UNCHANGED apiVars
    /\ UNCHANGED loadVars

\* prediction_model.get_model_info()
ModelInfoCO2 ==
    /\ tout' = [op |-> "info", who |-> "co2", result |-> pm_get_model_info(pm)]
    /\ UNCHANGED <<pm, lum, files, calls, succeeded>>
    /\ UNCHANGED normVars
    /\ UNCHANGED apiVars
    /\ UNCHANGED loadVars

\* prediction_model.save_model(path)
SaveCO2 ==
    /\ IF save_raises(pm)
       THEN /\ tout' = [op |-> "save", who |-> "co2", status |-> "raised"]
            /\ UNCHANGED files
       ELSE /\ tout' = [op |-> "save", who |-> "co2", status |-> "ok"]
            /\ files' = [files EXCEPT !.co2 = Pickled(pm_model_data(pm), pm)]
    /\ UNCHANGED <<pm, lum, calls, succeeded>>
    /\ UNCHANGED normVars
    /\ UNCHANGED apiVars
    /\ UNCHANGED loadVars

\* land_use_model.save_model(path)
SaveLandUse ==
    /\ IF save_raises(lum)
       THEN /\ tout' = [op |-> "save", who |-> "land_use", status |-> "raised"]
            /\ UNCHANGED files
       ELSE /\ tout' = [op |-> "save", who |-> "land_use", status |-> "ok"]
            /\ files' = [files EXCEPT !.land_use = Pickled(lum_model_data(lum), lum)]
    /\ UNCHANGED <<pm, lum, calls, succeeded>>
    /\ UNCHANGED normVars
    /\ UNCHANGED apiVars
    /\ UNCHANGED loadVars

\* prediction_model.load_model(path): open() raises when there is no file
LoadCO2 ==
    /\ IF files.co2 = NoFile
       THEN /\ tout' = [op |-> "load", who |-> "co2", status |-> "raised"]
            /\ UNCHANGED <<pm, succeeded>>
       ELSE /\ tout' = [op |-> "load", who |-> "co2", status |-> "ok", before |-> pm]
            /\ pm' = pm_load_model(pm, files.co2.data)
            /\ succeeded' = Succeed("co2", "load")
    /\ UNCHANGED <<lum, files, calls>>
    /\ UNCHANGED normVars
    /\ UNCHANGED apiVars
    /\ UNCHANGED loadVars

\* land_use_model.load_model(path)
LoadLandUse ==
    /\ IF files.land_use = NoFile
       THEN /\ tout' = [op |-> "load", who |-> "land_use", status |-> "raised"]
            /\ UNCHANGED <<lum, succeeded>>
       ELSE /\ tout' = [op |-> "load", who |-> "land_use", status |-> "ok", before |-> lum]
            /\ lum' = lum_load_model(lum, files.land_use.data)
            /\ succeeded' = Succeed("land_use", "load")
    /\ UNCHANGED <<pm, files, calls>>
    /\ UNCHANGED normVars
    /\ UNCHANGED apiVars
    /\ UNCHANGED loadVars

TrainNext ==
    \/ TrainCO2
    \/ TrainLandUse
    \/ PredictCO2
    \/ PredictLandUse
    \/ FeatureImportanceCO2
    \/ FeatureImportanceLandUse
    \/ ModelInfoCO2
    \/ SaveCO2
    \/ SaveLandUse
    \/ LoadCO2
    \/ LoadLandUse

SpecTrain == TrainInit /\ [][TrainNext]_vars

(***************************************************************************)
(* The service of app/main.py: the module globals analyzer,                *)
(* prediction_model, land_use_model and merged_df, the files of the data   *)
(* directory, and the endpoints that read and write them.  An endpoint     *)
(* gives back the globals it leaves behind and its answer, a status code   *)
(* with a body.                                                            *)
(***************************************************************************)
Answer(status, body) == [status |-> status, body |-> body]

\* a file of the data directory: one that read_csv turns into a table, or
\* one that read_csv rejects; the merged table remembers the CO2 table it
\* was made from
CsvFile(df) == [k |-> "file", parses |-> TRUE, df |-> df]
BadFile == [k |-> "file", parses |-> FALSE]
Merged(df, co2_df) == [k |-> "merged", df |-> df, of |-> co2_df]

AllowedExtensions == {".csv", ".xlsx", ".xls"}

\* startup_event: the CO2 file of the data directory is loaded when it
\* exists; every error is swallowed
startup_event(an, dsk) ==
    IF dsk.co2 = NoFile THEN an
    ELSE IF ~dsk.co2.parses THEN an
    ELSE IF preprocess_raises(dsk.co2.df) THEN an
    ELSE CO2DataAnalyzer(dsk.co2.df)

\* upload_data for a .csv file name or a name with a refused extension: the
\* extension is checked before the try block; inside it every exception,
\* the HTTPException(400) for an unknown data_type included, is answered
\* with 500; the file is written before it is read back
upload_data_keeps_merged(an, merged, dsk, ext, data_type, contents) ==
    IF ext \notin AllowedExtensions
    THEN [analyzer |-> an, merged_df |-> merged, disk |-> dsk,
          answer |-> Answer(400, "extension")]
    ELSE IF data_type \notin {"co2", "land_use"}
    THEN [analyzer |-> an, merged_df |-> merged, disk |-> dsk,
          answer |-> Answer(500, "data_type")]
    ELSE
    LET written == [dsk EXCEPT ![data_type] = contents] IN
    IF ~contents.parses
    THEN [analyzer |-> an, merged_df |-> merged, disk |-> written,
          answer |-> Answer(500, "parse")]
    ELSE IF data_type = "co2" /\ preprocess_raises(contents.df)
    THEN [analyzer |-> an, merged_df |-> merged, disk |-> written,
          answer |-> Answer(500, "clean")]
    ELSE IF data_type = "co2"
    THEN [analyzer |-> CO2DataAnalyzer(contents.df), merged_df |-> merged, disk |-> written,
          answer |-> Answer(200, Len(contents.df.rows))]
    ELSE [analyzer |-> an, merged_df |-> merged, disk |-> written,
          answer |-> Answer(200, Len(contents.df.rows))]
upload_data_forgets_on_failure(an, merged, dsk, ext, data_type, contents) ==
    IF ext \notin AllowedExtensions
    THEN [analyzer |-> an, merged_df |-> merged, disk |-> dsk,
          answer |-> Answer(400, "extension")]
    ELSE IF data_type \notin {"co2", "land_use"}
    THEN [analyzer |-> an, merged_df |-> merged, disk |-> dsk,
          answer |-> Answer(500, "data_type")]
    ELSE
    LET written == [dsk EXCEPT ![data_type] = contents] IN
    IF ~contents.parses
    THEN [analyzer |-> an, merged_df |-> merged, disk |-> written,
          answer |-> Answer(500, "parse")]
    ELSE IF data_type = "co2" /\ preprocess_raises(contents.df)
    THEN [analyzer |-> NoAnalyzer, merged_df |-> NoneV, disk |-> written,
          answer |-> Answer(500, "clean")]
    ELSE IF data_type = "co2"
    THEN [analyzer |-> CO2DataAnalyzer(contents.df), merged_df |-> NoneV, disk |-> written,
          answer |-> Answer(200, Len(contents.df.rows))]
    ELSE [analyzer |-> an, merged_df |-> merged, disk |-> written,
          answer |-> Answer(200, Len(contents.df.rows))]
upload_data(an, merged, dsk, ext, data_type, contents) ==
    IF ext \notin AllowedExtensions
    THEN [analyzer |-> an, merged_df |-> merged, disk |-> dsk,
          answer |-> Answer(400, "extension")]
    ELSE IF data_type \notin {"co2", "land_use"}
    THEN [analyzer |-> an, merged_df |-> merged, disk |-> dsk,
          answer |-> Answer(500, "data_type")]
    ELSE
    LET written == [dsk EXCEPT ![data_type] = contents] IN
    IF ~contents.parses
    THEN [analyzer |-> an, merged_df |-> merged, disk |-> written,
          answer |-> Answer(500, "parse")]
    ELSE IF data_type = "co2" /\ preprocess_raises(contents.df)
    THEN [analyzer |-> an, merged_df |-> merged, disk |-> written,
          answer |-> Answer(500, "clean")]
    ELSE IF data_type = "co2"
    THEN [analyzer |-> CO2DataAnalyzer(contents.df), merged_df |-> NoneV, disk |-> written,
          answer |-> Answer(200, Len(contents.df.rows))]
    ELSE [analyzer |-> an, merged_df |-> merged, disk |-> written,
          answer |-> Answer(200, Len(contents.df.rows))]

\* two merge keys match: equal numbers, equal strings, or both missing
key_eq(a, b) ==
    IF IsNull(a) \/ IsNull(b) THEN IsNull(a) /\ IsNull(b)
    ELSE IF a.t = "str" \/ b.t = "str" THEN a.t = b.t /\ a.s = b.s
    ELSE Tenths(a) = Tenths(b)

\* pd.merge(co2_df, land_use_df, on=on, how='inner', suffixes=('_co2',
\* '_land')): the pairs of rows with matching keys, in the order of the
\* left rows; a column both tables have outside the keys comes out twice,
\* suffixed
pd_merge(co2_df, land_use_df, on) ==
    LET keys == Range(on)
        overlap == (co2_df.cols \cap land_use_df.cols) \ keys
        left_name(c) == IF c \in overlap THEN c \o "_co2" ELSE c
        right_name(c) == IF c \in overlap THEN c \o "_land" ELSE c
        right_cols == land_use_df.cols \ keys
        cols == {left_name(c) : c \in co2_df.cols} \cup {right_name(c) : c \in right_cols}
        matches(i) ==
            SelectSeq(land_use_df.rows,
                      LAMBDA rrow : \A k \in keys : key_eq(co2_df.rows[i][k], rrow[k]))
        pairs == Flatten([i \in 1..Len(co2_df.rows) |->
                             [j \in 1..Len(matches(i)) |-> <<co2_df.rows[i], matches(i)[j]>>]])
        cell(p, m) ==
            IF \E c \in co2_df.cols : left_name(c) = m
            THEN p[1][CHOOSE c \in co2_df.cols : left_name(c) = m]
            ELSE p[2][CHOOSE c \in right_cols : right_name(c) = m]
    IN Frame(cols,
             [n \in 1..Len(pairs) |->
                 [m \in cols \cup {"idx"} |-> IF m = "idx" THEN n - 1 ELSE cell(pairs[n], m)]])

\* LandUseCO2Model.merge_datasets
merge_datasets(co2_df, land_use_df, on) ==
    IF \E i \in 1..Len(on) : on[i] \notin co2_df.cols \/ on[i] \notin land_use_df.cols
    THEN Raised("ValueError")
    ELSE Returned(pd_merge(co2_df, land_use_df, on))

\* merge_land_use_data: path is NoneArg for the default land-use file or
\* names a file that does not exist; the HTTPException(404) is raised
\* inside the try block and answered with 500
merge_land_use_data(an, merged, dsk, path, merge_columns) ==
    IF an = NoAnalyzer THEN [merged_df |-> merged, answer |-> Answer(503, "no data")]
    ELSE IF path # NoneArg \/ dsk.land_use = NoFile
    THEN [merged_df |-> merged, answer |-> Answer(500, "not found")]
    ELSE IF ~dsk.land_use.parses
    THEN [merged_df |-> merged, answer |-> Answer(500, "parse")]
    ELSE
    LET res == merge_datasets(an.df, dsk.land_use.df, merge_columns) IN
    IF res.status # "ok" THEN [merged_df |-> merged, answer |-> Answer(500, res.status)]
    ELSE [merged_df |-> Merged(res.value, an.df),
          answer |-> Answer(200, Len(res.value.rows))]

\* train_land_use_model: n_estimators is always handed on as a model
\* parameter; the model is saved after a train that did not raise
train_land_use_model(self, merged, fls, model_type, test_size, n_estimators, c, entropy) ==
    IF merged = NoneV
    THEN [land_use_model |-> self, files |-> fls, answer |-> Answer(400, "merge first")]
    ELSE
    LET res == lum_train(self, merged.df, "VALOR_F", model_type, test_size,
                         NEstimators(n_estimators), c, entropy) IN
    IF res.raised # "no"
    THEN [land_use_model |-> res.self, files |-> fls, answer |-> Answer(500, res.raised)]
    ELSE [land_use_model |-> res.self,
          files |-> [fls EXCEPT !.land_use = Pickled(lum_model_data(res.self), res.self)],
          answer |-> Answer(200, [metrics |-> res.self.metrics, of |-> merged.of])]

\* analyze_land_use_impact: the land-use columns of the merged table that
\* hold numbers are correlated with VALOR_F over the rows that have a value
analyze_land_use_impact(merged) ==
    IF merged = NoneV THEN Answer(400, "merge first")
    ELSE IF ~Has(merged.df, "VALOR_F") THEN Answer(500, "KeyError")
    ELSE LET df_clean == dropna(merged.df, {"VALOR_F"})
         IN Answer(200, [columns |-> InOrder(LandUseColumns, df_clean.cols),
                         rows |-> Len(df_clean.rows), of |-> merged.of])

\* train_model: n_estimators is always handed on as a model parameter; the
\* model is saved after a train that did not raise
train_model(self, an, fls, test_size, n_estimators, c, entropy, nan) ==
    IF an = NoAnalyzer
    THEN [prediction_model |-> self, files |-> fls, answer |-> Answer(503, "no data")]
    ELSE
    LET res == pm_train(self, an.df, "VALOR_F", test_size, NEstimators(n_estimators), c,
                        entropy, nan) IN
    IF res.raised # "no"
    THEN [prediction_model |-> res.self, files |-> fls, answer |-> Answer(500, res.raised)]
    ELSE [prediction_model |-> res.self,
          files |-> [fls EXCEPT !.co2 = Pickled(pm_model_data(res.self), res.self)],
          answer |-> Answer(200, res.self.metrics)]

\* the statistics and dashboard endpoints: 503 without an analyzer, 500
\* when the analyzer's method raises, else its result
stats_answer_empty(an, out) ==
    IF an = NoAnalyzer THEN Answer(200, <<>>)
    ELSE IF out.result.status # "ok" THEN Answer(500, out.result.status)
    ELSE Answer(200, out.result.value)
stats_answer(an, out) ==
    IF an = NoAnalyzer THEN Answer(503, "no data")
    ELSE IF out.result.status # "ok" THEN Answer(500, out.result.status)
    ELSE Answer(200, out.result.value)

(***************************************************************************)
(* The service as a state machine: the process starts on a data directory, *)
(* then answers requests.                                                  *)
(***************************************************************************)
LandRow(y, g, a) == [ANO |-> y, REGION |-> g, area |-> a]

MakeLandFrame(cols, cells) ==
    Frame(cols,
          [i \in 1..Len(cells) |->
              [idx |-> i - 1,
               ANO |-> IF "ANO" \in cols THEN cells[i].ANO ELSE Absent,
               REGION |-> IF "REGION" \in cols THEN cells[i].REGION ELSE Absent,
               area |-> IF "area" \in cols THEN cells[i].area ELSE Absent]])

\* CO2 tables: two that load, one whose value column does not clean
CO2Tables ==
    { MakeQueryFrame({"ANO", "REGION", "CATEGORIA", "VALOR_F", "UNIDAD_F"},
          << QueryRow(IntCell(2020), <<65>>, StrCell(<<99>>), IntCell(100), "GefCO2"),
             QueryRow(IntCell(2021), <<66>>, StrCell(<<99>>), IntCell(100), "GefCO2") >>),
      MakeQueryFrame({"ANO", "REGION", "CATEGORIA", "VALOR_F", "UNIDAD_F"},
          << QueryRow(IntCell(2020), <<66>>, StrCell(<<100>>), IntCell(300), "CF") >>),
      MakeQueryFrame({"ANO", "REGION", "CATEGORIA", "VALOR_F", "UNIDAD_F"},
          << QueryRow(IntCell(2020), <<65>>, StrCell(<<99>>), StrCell(<<120>>), "GefCO2") >>) }

\* a land-use table with both merge keys
LandUseTables ==
    { MakeLandFrame({"ANO", "REGION", "area"},
          << LandRow(IntCell(2020), StrCell(<<65>>), FloatCell(50)),
             LandRow(IntCell(2021), StrCell(<<66>>), FloatCell(70)),
             LandRow(IntCell(2020), StrCell(<<66>>), NaN) >>) }

Extensions == {".csv", ".txt"}
DataTypes == {"co2", "land_use", "other"}
Uploads(data_type) ==
    IF data_type = "land_use" THEN {CsvFile(df) : df \in LandUseTables}
    ELSE {BadFile} \cup {CsvFile(df) : df \in CO2Tables}
LandUsePaths == {NoneArg, Some("missing.csv")}
MergeColumns == {<<"ANO", "REGION">>, <<"ANO", "DEPTO">>}
ApiModelTypes == {"random_forest"}
ApiNEstimators == {5}
\* no table above has a row of 2019
ApiYearArgs == {NoneArg, Some(2019)}
ApiRegionArgs == {NoneArg}
ApiCategoryTypeArgs == {NoneArg}
\* /stats/emissions-by-unit always names a category type
ApiUnitCategoryTypeArgs == {Some("aire_emisiones")}

ApiInit ==
    /\ merged_df = NoneV
    /\ disk \in {[co2 |-> f, land_use |-> NoFile] : f \in {NoFile} \cup Uploads("co2")}
    /\ resp = [op |-> "boot"]
    /\ NormIdle
    /\ LoadIdle
    /\ TrainIdle

\* the process has started
Up == resp.op # "boot"

ApiFrame ==
    /\ UNCHANGED <<raw, reloaded, lout>>
    /\ UNCHANGED normVars

\* startup_event: the CO2 file and the two pickled models are loaded when
\* they exist
Startup ==
    /\ resp.op = "boot"
    /\ analyzer' = startup_event(analyzer, disk)
    /\ pm' = IF files.co2 = NoFile THEN pm ELSE pm_load_model(pm, files.co2.data)
    /\ lum' = IF files.land_use = NoFile THEN lum ELSE lum_load_model(lum, files.land_use.data)
    /\ resp' = [op |-> "startup"]
    /\ UNCHANGED <<merged_df, disk, files, calls, succeeded, tout>>
    /\ ApiFrame

\* POST /data/upload
UploadData ==
    /\ Up
    /\ \E ext \in Extensions, data_type \in DataTypes :
       \E contents \in Uploads(data_type) :
          LET out == upload_data(analyzer, merged_df, disk, ext, data_type, contents) IN
          /\ analyzer' = out.analyzer
          /\ merged_df' = out.merged_df
          /\ disk' = out.disk
          /\ resp' = [op |-> "upload", ext |-> ext, data_type |-> data_type,
                      status |-> out.answer.status, body |-> out.answer.body]
    /\ UNCHANGED trainVars
    /\ ApiFrame

\* POST /land-use/merge
MergeLandUseData ==
    /\ Up
    /\ \E path \in LandUsePaths, merge_columns \in MergeColumns :
          LET out == merge_land_use_data(analyzer, merged_df, disk, path, merge_columns) IN
          /\ merged_df' = out.merged_df
          /\ resp' = [op |-> "merge", path |-> path, status |-> out.answer.status,
                      body |-> out.answer.body, had_table |-> analyzer # NoAnalyzer]
    /\ UNCHANGED <<analyzer, disk>>
    /\ UNCHANGED trainVars
    /\ ApiFrame

\* POST /land-use/train
TrainLandUseModel ==
    /\ Up
    /\ merged_df = NoneV \/ calls < MaxCalls
    /\ \E model_type \in ApiModelTypes, test_size \in TestSizes,
          n_estimators \in ApiNEstimators :
       \E entropy \in Draws(NEstimators(n_estimators)) :
          LET out == train_land_use_model(lum, merged_df, files, model_type, test_size,
                                          n_estimators, calls + 1, entropy) IN
          /\ lum' = out.land_use_model
          /\ files' = out.files
          /\ resp' = [op |-> "land_use_train", status |-> out.answer.status,
                      body |-> out.answer.body, had_table |-> analyzer # NoAnalyzer,
                      had_merge |-> merged_df # NoneV]
    /\ calls' = IF merged_df = NoneV THEN calls ELSE calls + 1
    /\ UNCHANGED <<analyzer, merged_df, disk, pm, succeeded, tout>>
    /\ ApiFrame

\* GET /land-use/analysis
AnalyzeLandUseImpact ==
    /\ Up
    /\ LET answer == analyze_land_use_impact(merged_df) IN
          resp' = [op |-> "analysis", status |-> answer.status, body |-> answer.body,
                   had_merge |-> merged_df # NoneV]
    /\ UNCHANGED <<analyzer, merged_df, disk>>
    /\ UNCHANGED trainVars
    /\ ApiFrame

\* POST /model/train
TrainModel ==
    /\ Up
    /\ analyzer = NoAnalyzer \/ calls < MaxCalls
    /\ \E test_size \in TestSizes, n_estimators \in ApiNEstimators :
       \E entropy \in Draws(NEstimators(n_estimators)) :
          LET out == train_model(pm, analyzer, files, test_size, n_estimators, calls + 1,
                                 entropy, "accepted") IN
          /\ pm' = out.prediction_model
          /\ files' = out.files
          /\ resp' = [op |-> "train", test_size |-> test_size,
                      n_estimators |-> n_estimators, status |-> out.answer.status,
                      body |-> out.answer.body, had_table |-> analyzer # NoAnalyzer]
    /\ calls' = IF analyzer = NoAnalyzer THEN calls ELSE calls + 1
    /\ UNCHANGED <<analyzer, merged_df, disk, lum, succeeded, tout>>
    /\ ApiFrame

\* the common step of the statistics and dashboard endpoints
StatsStep(endpoint, year, region, category_type, out) ==
    /\ analyzer' = IF analyzer = NoAnalyzer THEN analyzer ELSE out.self
    /\ LET answer == stats_answer(analyzer, out) IN
          resp' = [op |-> "stats", endpoint |-> endpoint, year |-> year, region |-> region,
                   category_type |-> category_type, status |-> answer.status,
                   body |-> answer.body, had_table |-> analyzer # NoAnalyzer]
    /\ UNCHANGED <<merged_df, disk>>
    /\ UNCHANGED trainVars
    /\ ApiFrame

\* the outcomes of a method that has several, none without an analyzer
OutcomesOf(outs) == IF analyzer = NoAnalyzer THEN {NoAnalyzer} ELSE outs

\* GET /stats/general
GetGeneralStats ==
    /\ Up
    /\ \E year \in ApiYearArgs, region \in ApiRegionArgs, category_type \in ApiCategoryTypeArgs :
          StatsStep("general", year, region, category_type,
                    get_general_stats(analyzer, year, region, category_type))

\* GET /stats/category-summary
GetCategorySummary ==
    /\ Up
    /\ StatsStep("category-summary", NoneArg, NoneArg, NoneArg, get_category_summary(analyzer))

\* GET /stats/regions
GetRegionStats ==
    /\ Up
    /\ \E year \in ApiYearArgs, category_type \in ApiCategoryTypeArgs :
          StatsStep("regions", year, NoneArg, category_type,
                    get_stats_by_region(analyzer, year, category_type))

\* GET /stats/categories
GetCategoryStats ==
    /\ Up
    /\ \E year \in ApiYearArgs, region \in ApiRegionArgs :
          StatsStep("categories", year, region, NoneArg,
                    get_stats_by_category(analyzer, year, region))

\* GET /stats/region-category
GetRegionCategoryStats ==
    /\ Up
    /\ \E year \in ApiYearArgs :
          StatsStep("region-category", year, NoneArg, NoneArg,
                    get_stats_by_region_category(analyzer, year))

\* GET /stats/time-series
GetTimeSeries ==
    /\ Up
    /\ \E region \in ApiRegionArgs, category_type \in ApiCategoryTypeArgs :
          StatsStep("time-series", NoneArg, region, category_type,
                    get_time_series_by_region(analyzer, region, category_type))

\* GET /stats/top-emitters, with the default n and by
GetTopEmitters ==
    /\ Up
    /\ \E year \in ApiYearArgs, category_type \in ApiCategoryTypeArgs :
       \E out \in OutcomesOf(get_top_emitters(analyzer, 10, "REGION", year, category_type)) :
          StatsStep("top-emitters", year, NoneArg, category_type, out)

\* GET /stats/emissions-by-unit
GetEmissionsByUnit ==
    /\ Up
    /\ \E year \in ApiYearArgs, region \in ApiRegionArgs,
          category_type \in ApiUnitCategoryTypeArgs :
          StatsStep("emissions-by-unit", year, region, category_type,
                    get_emissions_by_unit_type(analyzer, region, year, category_type))

\* GET /stats/available-options
GetAvailableOptions ==
    /\ Up
    /\ StatsStep("available-options", NoneArg, NoneArg, NoneArg,
                 [self |-> analyzer,
                  result |-> Returned([regions |-> get_available_regions(analyzer),
                                       categories |-> get_available_categories(analyzer),
                                       years |-> get_available_years(analyzer)])])

\* GET /dashboard/data
GetDashboardData ==
    /\ Up
    /\ \E year \in ApiYearArgs, region \in ApiRegionArgs, category_type \in ApiCategoryTypeArgs :
       \E out \in OutcomesOf(get_dashboard_data(analyzer, year, region, category_type)) :
          StatsStep("dashboard", year, region, category_type, out)

ApiNext ==
    \/ Startup
    \/ UploadData
    \/ MergeLandUseData
    \/ TrainLandUseModel
    \/ AnalyzeLandUseImpact
    \/ TrainModel
    \/ GetGeneralStats
    \/ GetCategorySummary
    \/ GetRegionStats
    \/ GetCategoryStats
    \/ GetRegionCategoryStats
    \/ GetTimeSeries
    \/ GetTopEmitters
    \/ GetEmissionsByUnit
    \/ GetAvailableOptions
    \/ GetDashboardData

SpecApi == ApiInit /\ [][ApiNext]_vars

(***************************************************************************)
(* Properties of the normaliser and the loader.                            *)
(***************************************************************************)
\* no combining mark and no precomposed (accented) letter
NoDiacritics(s) == \A i \in 1..Len(s) : ~Combining(s[i]) /\ ~Precomposed(s[i])

CleanRegion(s) ==
    /\ Upper(s) = s
    /\ NoDiacritics(s)
    /\ s # NAN
    /\ s # NONE
    /\ ~Contains(s, COLOMBIA)

Idx(df) == {df.rows[i].idx : i \in 1..Len(df.rows)}

Partitions(an) == {an.df_aire_emisiones, an.df_bosque_captura, an.df_causas_factores}

RowAt(df, k) == df.rows[CHOOSE i \in 1..Len(df.rows) : df.rows[i].idx = k]

\* C5: after a load, every region of the canonical table and of the three
\* partitions is upper-cased, free of diacritics, not "NAN", not "NONE" and
\* without "COLOMBIA"; a raw row whose normalised region is otherwise is in
\* none of the four frames.
C5_RegionsClean ==
    (analyzer.state = "loaded" /\ Has(raw, "REGION")) =>
        /\ \A f \in {analyzer.df} \cup Partitions(analyzer) :
              \A i \in 1..Len(f.rows) : CleanRegion(f.rows[i].REGION.s)
        /\ \A i \in 1..Len(raw.rows) :
              ~CleanRegion(region_cell(raw.rows[i].REGION)) =>
                  \A f \in {analyzer.df} \cup Partitions(analyzer) :
                      raw.rows[i].idx \notin Idx(f)

\* a load that dropped a sentinel row and kept a row whose region it rewrote
C5_Witness ==
    /\ analyzer.state = "loaded"
    /\ Has(raw, "REGION")
    /\ \E i \in 1..Len(raw.rows) : raw.rows[i].idx \notin Idx(analyzer.df)
    /\ \E i \in 1..Len(analyzer.df.rows) :
          LET row == analyzer.df.rows[i] IN
          /\ RowAt(raw, row.idx).REGION # row.REGION
          /\ row.idx \in Idx(analyzer.df_bosque_captura)

\* C6 as stated: normalising is idempotent and the result has no diacritics
\* and no lowercase letter.
C6_NoLowercaseAtAll ==
    npc = "twice" =>
        /\ nnr = nr
        /\ NoDiacritics(nr)
        /\ \A i \in 1..Len(nr) : ~IsLower(nr[i])

\* C6 amended: normalising is idempotent, the result has no diacritics, and
\* it has no lowercase letter that has an uppercase form (upper-casing the
\* result changes nothing).
C6_Idempotent ==
    npc = "twice" =>
        /\ nnr = nr
        /\ NoDiacritics(nr)
        /\ \A i \in 1..Len(nr) : UpperChar(nr[i]) = nr[i]

\* an accented lowercase string with surrounding blanks, normalised twice
C6_Witness ==
    /\ npc = "twice"
    /\ r = <<32, 225, 97>>
    /\ nr = <<65, 65>>

StrictlyAscending(v) == \A i \in 1..(Len(v) - 1) : LexLess(v[i], v[i + 1])

\* case, accents and surrounding white space folded away, code point by
\* code point
FoldChar(c) == UpperChar(BaseOf(c))
Fold(s) == Strip([i \in 1..Len(SelectSeq(s, NotCombining)) |->
                     FoldChar(IF SelectSeq(s, NotCombining)[i] = 160 THEN 32
                              ELSE SelectSeq(s, NotCombining)[i])])

KeptRaw == {i \in 1..Len(raw.rows) : raw.rows[i].idx \in Idx(analyzer.df)}

\* C7: get_available_regions lists, in ascending order and once each, the
\* regions of the kept rows with case, accents and surrounding white space
\* folded away, so raw strings that differ only in those are one entry.
C7_RegionsSortedUnique ==
    (lout.op = "regions" /\ Has(raw, "REGION")) =>
        /\ StrictlyAscending(lout.value)
        /\ Range(lout.value) = {Fold(AsStr(raw.rows[i].REGION)) : i \in KeptRaw}

\* two kept rows spelled differently are one region, listed after "AB"
C7_Witness ==
    /\ lout.op = "regions"
    /\ Len(raw.rows) = 2
    /\ Len(analyzer.df.rows) = 2
    /\ raw.rows[1].REGION # raw.rows[2].REGION
    /\ lout.value = <<(<<66, 65>>)>>

YearUnparseable(c) == ~IsNull(c) /\ ParseNumber(RStripDots(AsStr(c))) = NaN
ValueUnparseable(c) == ~IsNull(c) /\ ParseNumber(DropCommas(AsStr(c))) = NaN

\* C8 as stated: a load never raises on an unparseable year or value cell;
\* the cell becomes missing and its row stays (unless its region drops it).
C8_FailSoft ==
    lout.op = "load" =>
        /\ lout.status = "ok"
        /\ \A i \in 1..Len(raw.rows) :
              LET k == raw.rows[i].idx IN
              /\ (Has(raw, "ANO") /\ YearUnparseable(raw.rows[i].ANO)) =>
                    (Has(raw, "REGION") \/ k \in Idx(analyzer.df))
                    /\ (k \in Idx(analyzer.df) => RowAt(analyzer.df, k).ANO = NaN)
              /\ (Has(raw, "VALOR_F") /\ ValueUnparseable(raw.rows[i].VALOR_F)) =>
                    (Has(raw, "REGION") \/ k \in Idx(analyzer.df))
                    /\ (k \in Idx(analyzer.df) => RowAt(analyzer.df, k).VALOR_F = NaN)

\* C9: an analyzer built from another analyzer's canonical table does not
\* raise and has the same canonical table and the same three partitions.
C9_ReloadIsNoOp ==
    /\ ~(lout.op = "reload" /\ lout.status = "raised")
    /\ reloaded.state = "loaded" => reloaded = analyzer

\* a reload of a table whose first load changed cells and dropped a row
C9_Witness ==
    /\ reloaded.state = "loaded"
    /\ Len(analyzer.df.rows) = 1
    /\ Len(raw.rows) = 2
    /\ LET row == analyzer.df.rows[1] IN
       /\ RowAt(raw, row.idx).REGION # row.REGION
       /\ RowAt(raw, row.idx).VALOR_F # row.VALOR_F
       /\ row.VALOR_F # NaN

\* C10: no row label is in more than one of the three partitions.
C10_PartitionsDisjoint ==
    analyzer.state = "loaded" =>
        /\ Idx(analyzer.df_aire_emisiones) \cap Idx(analyzer.df_bosque_captura) = {}
        /\ Idx(analyzer.df_aire_emisiones) \cap Idx(analyzer.df_causas_factores) = {}
        /\ Idx(analyzer.df_bosque_captura) \cap Idx(analyzer.df_causas_factores) = {}

\* a table with one row in forest-capture and one in causal-factors
C10_Witness ==
    /\ analyzer.state = "loaded"
    /\ Len(analyzer.df_bosque_captura.rows) = 1
    /\ Len(analyzer.df_causas_factores.rows) = 1

(***************************************************************************)
(* Properties of the trainers.                                             *)
(***************************************************************************)
Trainer(who) == IF who = "co2" THEN pm ELSE lum
Trainers == {"co2", "land_use"}

OneHotNames(self) ==
    {self.feature_columns.names[i] : i \in
        {j \in 1..Len(self.feature_columns.names) :
            self.feature_columns.names[j][1] \in {"REGION", "CATEGORIA"}}}

AllUnset(self) ==
    self.model = NoneV /\ self.ohe = NoneV /\ self.feature_columns = NoneV

FromOneCall(self) ==
    /\ self.model # NoneV /\ self.model.fitted
    /\ self.feature_columns # NoneV
    /\ self.feature_columns.call = self.model.call
    /\ IF self.ohe = NoneV THEN OneHotNames(self) = {}
       ELSE self.ohe.fitted /\ self.ohe.call = self.model.call

\* C1: training is atomic for callers: in every reachable state the stored
\* model, one-hot encoder and feature-column list of a trainer all come from
\* the same train call or are all unset, and a train call that raised has
\* left model, encoder, feature-column list and metrics as they were before.
C1_TrainAtomic ==
    /\ \A who \in Trainers : AllUnset(Trainer(who)) \/ FromOneCall(Trainer(who))
    /\ tout.op = "train" /\ tout.status # "no" =>
          /\ Trainer(tout.who).model = tout.before.model
          /\ Trainer(tout.who).ohe = tout.before.ohe
          /\ Trainer(tout.who).feature_columns = tout.before.feature_columns
          /\ Trainer(tout.who).metrics = tout.before.metrics

NeverSucceeded(who) == ~succeeded[who].train /\ ~succeeded[who].load

\* the error of the explicit guard, or scikit-learn's NotFittedError
NotTrainedError(result) == result.status \in {"not_trained", "not_fitted"}

\* C2: on a trainer on which no train and no load_model has ever succeeded,
\* predict and get_feature_importance raise a not-trained error and return
\* no value, whatever the input record.
C2_UntrainedRaises ==
    tout.op \in {"predict", "importance"} /\ NeverSucceeded(tout.who) =>
        NotTrainedError(tout.result)

\* a record with every field, whose categorical fields are the ones the
\* trainer's encoder was fitted on
WellFormed(self, rec) ==
    /\ rec.keys = {"ANO", "REGION", "CATEGORIA", "area"}
    /\ self.ohe # NoneV /\ self.ohe.fitted => self.ohe.cols = InOrder(LUCategorical, rec.keys)

\* C3: the trainer state machine is one-way: once a train call has
\* succeeded, after any later train, predict, save_model and load_model
\* calls get_model_info reports 'trained' and predict on a well-formed
\* record returns a value.
C3_StaysTrained ==
    /\ tout.op = "info" /\ succeeded[tout.who].train => tout.result = Returned("trained")
    /\ tout.op = "predict" /\ succeeded[tout.who].train
          /\ WellFormed(Trainer(tout.who), tout.rec) => tout.result.status = "ok"

\* the rows of the table that have a value in every categorical column and
\* in the target, and the categorical values seen in them
CleanedRows(df) ==
    {i \in 1..Len(df.rows) :
        \A c \in (df.cols \cap {"REGION", "CATEGORIA"}) \cup {"VALOR_F"} : ~IsNull(df.rows[i][c])}
Observed(df) ==
    {<<c, df.rows[i][c].s>> : c \in df.cols \cap {"REGION", "CATEGORIA"}, i \in CleanedRows(df)}

\* C4: the feature vocabulary is rebuilt by every train: after each
\* successful train on a table, a re-train included, the one-hot columns of
\* the stored vocabulary are exactly the distinct categorical values seen in
\* the cleaned rows of that table.
C4_VocabularyRebuilt ==
    tout.op = "train" /\ tout.status = "no" =>
        OneHotNames(Trainer(tout.who)) = Observed(tout.df)

(***************************************************************************)
(* Properties of the queries.                                              *)
(***************************************************************************)
Classes == {"aire_emisiones", "bosque_captura", "causas_factores"}

ClassUnits(cls) ==
    CASE cls = "aire_emisiones" -> UNIDADES_AIRE_EMISIONES
      [] cls = "bosque_captura" -> UNIDADES_BOSQUE_CAPTURA
      [] cls = "causas_factores" -> UNIDADES_CAUSAS_FACTORES

ClassTable(an, cls) ==
    CASE cls = "aire_emisiones" -> an.df_aire_emisiones
      [] cls = "bosque_captura" -> an.df_bosque_captura
      [] cls = "causas_factores" -> an.df_causas_factores

\* the table a query with this category_type starts from
SelectedTable(an, category_type) ==
    IF category_type \in {Some(cls) : cls \in Classes}
    THEN ClassTable(an, category_type.v) ELSE an.df

\* the predicates of a query, on one row of a table
Matches(df, row, year, region, start_year, end_year) ==
    /\ (Has(df, "ANO") /\ year # NoneArg) =>
          ~IsNull(row.ANO) /\ Tenths(row.ANO) = 10 * year.v
    /\ (Has(df, "ANO") /\ year = NoneArg /\ start_year # NoneArg) =>
          ~IsNull(row.ANO) /\ Tenths(row.ANO) >= 10 * start_year.v
    /\ (Has(df, "ANO") /\ year = NoneArg /\ end_year # NoneArg) =>
          ~IsNull(row.ANO) /\ Tenths(row.ANO) <= 10 * end_year.v
    /\ (Has(df, "REGION") /\ region # NoneArg) => row.REGION.s = region.v

NoClass(df, row) ==
    ~Has(df, "UNIDAD_F") \/ \A cls \in Classes : row.UNIDAD_F \notin ClassUnits(cls)

\* C11: each partition holds exactly the canonical rows whose unit is a
\* member of its class's unit list; a row whose unit is in no list is in no
\* partition and in no result of a class-filtered query, and a query with
\* no class filter returns it whenever it meets the other predicates.
C11_PartitionsByUnit ==
    analyzer.state = "loaded" =>
        /\ \A cls \in Classes :
              /\ Idx(ClassTable(analyzer, cls)) =
                    {analyzer.df.rows[i].idx : i \in
                        {j \in 1..Len(analyzer.df.rows) :
                            /\ Has(analyzer.df, "UNIDAD_F")
                            /\ analyzer.df.rows[j].UNIDAD_F \in ClassUnits(cls)}}
              /\ \A k \in Idx(ClassTable(analyzer, cls)) :
                    RowAt(ClassTable(analyzer, cls), k) = RowAt(analyzer.df, k)
        /\ \A i \in 1..Len(analyzer.df.rows) :
              LET row == analyzer.df.rows[i] IN
              NoClass(analyzer.df, row) =>
                  /\ \A cls \in Classes : row.idx \notin Idx(ClassTable(analyzer, cls))
                  /\ lout.op = "filter" =>
                        IF lout.category_type \in {Some(cls) : cls \in Classes}
                        THEN row.idx \notin Idx(lout.result.value)
                        ELSE row.idx \in Idx(lout.result.value) <=>
                                Matches(analyzer.df, row, lout.year, lout.region,
                                        lout.start_year, lout.end_year)

\* a table with a row in a class and a row in none; the unfiltered query
\* returned both
C11_Witness ==
    /\ analyzer.state = "loaded"
    /\ lout.op = "filter"
    /\ lout.category_type = NoneArg
    /\ Len(analyzer.df_aire_emisiones.rows) = 1
    /\ \E i \in 1..Len(analyzer.df.rows) :
          /\ NoClass(analyzer.df, analyzer.df.rows[i])
          /\ Has(analyzer.df, "UNIDAD_F")
          /\ analyzer.df.rows[i].idx \in Idx(lout.result.value)
    /\ Len(lout.result.value.rows) = 3

\* C12: filter_data returns exactly the rows of the selected base table that
\* meet all the given predicates: the year when year is given (the bounds
\* are then ignored), else the inclusive bounds that are given, and the
\* region; a row without a year fails every year predicate.
C12_FilterExact ==
    lout.op = "filter" =>
        LET base == SelectedTable(analyzer, lout.category_type) IN
        /\ lout.result.value.cols = base.cols
        /\ lout.result.value.rows =
              SelectSeq(base.rows,
                        LAMBDA row : Matches(base, row, lout.year, lout.region,
                                             lout.start_year, lout.end_year))

\* a range-and-region query that kept a row, dropped one for its missing
\* year and one for its region
C12_Witness ==
    /\ lout.op = "filter"
    /\ lout.year = NoneArg
    /\ lout.start_year = Some(2020)
    /\ lout.end_year = Some(2020)
    /\ lout.region = Some(<<65>>)
    /\ lout.category_type = NoneArg
    /\ Has(analyzer.df, "ANO") /\ Has(analyzer.df, "REGION")
    /\ Len(lout.result.value.rows) = 1
    /\ \E i \in 1..Len(analyzer.df.rows) :
          IsNull(analyzer.df.rows[i].ANO) /\ analyzer.df.rows[i].REGION.s = <<65>>
    /\ \E i \in 1..Len(analyzer.df.rows) :
          ~IsNull(analyzer.df.rows[i].ANO) /\ analyzer.df.rows[i].REGION.s = <<66>>

\* C13: the canonical table is immutable after construction: whatever
\* queries were made, the analyzer's table and its three partitions are the
\* ones the constructor built.
C13_TableImmutable ==
    analyzer.state = "loaded" => analyzer = CO2DataAnalyzer(raw)

\* a filter by region that returned fewer rows than the table has
C13_Witness ==
    /\ analyzer.state = "loaded"
    /\ lout.op = "filter"
    /\ lout.region # NoneArg
    /\ Len(lout.result.value.rows) = 1
    /\ Len(analyzer.df.rows) = 3

\* the columns an aggregation groups by and reads
Needed(by) == Range(by) \cup {"VALOR_F"}

\* C14: an aggregation whose grouping column or value column is absent
\* from the table returns an empty result and never raises, and the
\* category summary never raises.
C14_AbsentColumnEmpty ==
    /\ (lout.op \in {"group", "top"} /\ ~(Needed(lout.by) \subseteq analyzer.df.cols)) =>
          lout.result = Returned(<<>>)
    /\ lout.op = "summary" => lout.result.status = "ok"

\* the rows of the filtered table with a value in every grouping column and
\* in the value column
Complete(df, row, by) ==
    \A c \in Needed(by) : Has(df, c) /\ (c # "UNIDAD_F" => ~IsNull(row[c]))

CompleteRows(by) ==
    LET base == SelectedTable(analyzer, lout.category_type) IN
    SelectSeq(base.rows,
              LAMBDA row : /\ Matches(base, row, lout.year, lout.region, NoneArg, NoneArg)
                           /\ Complete(base, row, by))

RECURSIVE SumCounts(_)
SumCounts(groups) ==
    IF groups = <<>> THEN 0 ELSE Head(groups).count + SumCounts(Tail(groups))

\* C15: group-by completeness: the counts of the groups sum to the number
\* of filtered rows with no missing value in a grouping column or in the
\* value column; each group counts and totals such rows only, so a row with
\* a missing value adds to no group and makes no group.
C15_GroupCounts ==
    (lout.op = "group" /\ lout.result.status = "ok") =>
        LET rows == CompleteRows(lout.by)
            groups == lout.result.value
        IN /\ SumCounts(groups) = Len(rows)
           /\ \A g \in 1..Len(groups) :
                 LET members == SelectSeq(rows, LAMBDA row : KeyOf(row, lout.by) = groups[g].key)
                 IN /\ groups[g].count = Len(members)
                    /\ groups[g].count >= 1
                    /\ groups[g].total = SumValues(members)

\* a grouping by category of three rows, one without a value and one
\* without a category: one group of one row
C15_Witness ==
    /\ lout.op = "group"
    /\ lout.by = <<"CATEGORIA">>
    /\ lout.year = NoneArg /\ lout.region = NoneArg
    /\ lout.result.status = "ok"
    /\ Len(lout.result.value) = 1
    /\ lout.result.value[1].count = 1
    /\ Len(analyzer.df.rows) = 3
    /\ \E i \in 1..3 : IsNull(analyzer.df.rows[i].VALOR_F)
    /\ \E i \in 1..3 : IsNull(analyzer.df.rows[i].CATEGORIA)

\* C16: every unranked grouping result has one row per distinct key, in
\* ascending order of the key: lexical for region, category and the pairs,
\* numeric for the year of the time series.
C16_GroupsAscending ==
    (lout.op = "group" /\ lout.result.status = "ok") =>
        LET groups == lout.result.value IN
        /\ \A i, j \in 1..Len(groups) : i < j => KeyLess(groups[i].key, groups[j].key)
        /\ {groups[g].key : g \in 1..Len(groups)} =
              {KeyOf(CompleteRows(lout.by)[i], lout.by) : i \in 1..Len(CompleteRows(lout.by))}

\* a grouping by (region, category) whose first row belongs to the last group
C16_Witness ==
    /\ lout.op = "group"
    /\ lout.by = <<"REGION", "CATEGORIA">>
    /\ lout.result.status = "ok"
    /\ Len(lout.result.value) = 3
    /\ KeyOf(analyzer.df.rows[1], lout.by) = lout.result.value[3].key

\* the groups get_top_emitters ranks
Ranked == Returned(groupby(Frame(analyzer.df.cols, CompleteRows(lout.by)), lout.by))

C18_EmptyTrainRaises ==
    (tout.op = "train" /\ CleanedRows(tout.df) = {}) =>
        /\ tout.status # "no"
        /\ Trainer(tout.who).metrics = tout.before.metrics

\* a train on a table that has every column and rows, none of them complete
C18_Witness ==
    /\ tout.op = "train"
    /\ tout.who = "co2"
    /\ tout.df.cols = {"ANO", "REGION", "CATEGORIA", "VALOR_F", "area"}
    /\ Len(tout.df.rows) = 2
    /\ CleanedRows(tout.df) = {}
    /\ tout.status = "fit_transform"

\* C19: for both trainers, train raises when the table lacks a categorical
\* column (REGION or CATEGORIA) or the target column.
C19_MissingColumnRaises ==
    (tout.op = "train" /\ ~({"REGION", "CATEGORIA", "VALOR_F"} \subseteq tout.df.cols)) =>
        tout.status # "no"

\* a value of field f that the trainer's encoder never saw
Unseen(self, f, rec) ==
    \E j \in 1..Len(self.ohe.cols) :
        self.ohe.cols[j] = f /\ rec[f] \notin Range(self.ohe.cats[j])

\* C20: on a trained model, predict on a record whose REGION or CATEGORIA
\* value was never seen in training does not raise, and the feature vector
\* it builds has zero in every one-hot column of that field.
C20_UnknownCategoryZero ==
    \A f \in {"REGION", "CATEGORIA"} :
        (/\ tout.op = "predict"
         /\ FromOneCall(Trainer(tout.who))
         /\ WellFormed(Trainer(tout.who), tout.rec)
         /\ Unseen(Trainer(tout.who), f, tout.rec)) =>
            /\ tout.result.status = "ok"
            /\ \A j \in 1..Len(Trainer(tout.who).feature_columns.names) :
                  Trainer(tout.who).feature_columns.names[j][1] = f =>
                      tout.result.value.x[j] = 0

\* a prediction for a region the encoder of a trained model does not know,
\* with a category it knows
C20_Witness ==
    /\ tout.op = "predict"
    /\ tout.who = "co2"
    /\ FromOneCall(pm)
    /\ WellFormed(pm, tout.rec)
    /\ Unseen(pm, "REGION", tout.rec)
    /\ ~Unseen(pm, "CATEGORIA", tout.rec)
    /\ tout.result.status = "ok"
    /\ Len(pm.ohe.cats[1]) = 2

(***************************************************************************)
(* Properties of the feature encoding and of persistence.                  *)
(***************************************************************************)
\* the rows CO2PredictionModel.train fits on
FitRows(df) == dropna(pm_preprocess_data(df), {"REGION", "CATEGORIA", "VALOR_F"}).rows

\* the prediction input that carries the fields of a row
RowRecord(row) ==
    Record({"ANO", "REGION", "CATEGORIA", "area"}, row.ANO, row.REGION.s, row.CATEGORIA.s,
           row.area)

\* C21: encoding round-trip: a predict that follows a successful train, on
\* the fields of a row of the fit set, builds the feature row that train
\* built for that row (same one-hot values in the same columns).
C21_EncodingRoundTrip ==
    [][(/\ tout.op = "train" /\ tout.who = "co2" /\ tout.status = "no"
        /\ tout'.op = "predict" /\ tout'.who = "co2") =>
           \A i \in 1..Len(FitRows(tout.df)) :
               RowRecord(FitRows(tout.df)[i]) = tout'.rec =>
                   tout'.result = Returned([call |-> pm.model.call, x |-> tout.X[i]])]_vars

\* a prediction on the fields of the first training row, by a model whose
\* encoder knows two regions
C21_Witness ==
    /\ tout.op = "predict"
    /\ tout.who = "co2"
    /\ tout.rec = Record({"ANO", "REGION", "CATEGORIA", "area"},
                         FloatCell(20200), <<65>>, <<99>>, FloatCell(50))
    /\ FromOneCall(pm)
    /\ Len(pm.ohe.cats[1]) = 2
    /\ tout.result.status = "ok"
    /\ tout.result.value.x = <<FloatCell(20200), 1, 0, 1>>

\* the value that a record owes to one column of the vocabulary: its own
\* value for a numeric field it supplies, 1 in the one-hot column of the
\* value it has, 0 otherwise
Owed(who, rec, name) ==
    IF name[2] = <<>>
    THEN IF name[1] \in rec.keys /\ (who = "co2" => name[1] \in Range(NumericFeatures))
         THEN rec[name[1]] ELSE 0
    ELSE IF name[1] \in rec.keys /\ rec[name[1]] = name[2] THEN 1 ELSE 0

BuiltX(status) ==
    status \in {"train_test_split", "model_type", "TypeError", "fit", "score", "no"}

\* the columns of a table that train takes as numeric features
NumericOf(who, df) ==
    IF who = "co2" THEN InOrder(NumericFeatures, df.cols)
    ELSE InOrder(NumericFeatures, df.cols) \o InOrder(LandUseColumns, df.cols)

\* C23: fit keeps every row whose categorical and target values are
\* present, also when a numeric value of the row is missing, and X holds 0
\* (never a missing value) wherever a numeric value was missing.
C23_NumericZeroFilled ==
    (tout.op = "train" /\ BuiltX(tout.status)) =>
        /\ Len(tout.X) = Cardinality(CleanedRows(tout.df))
        /\ \A i \in 1..Len(tout.X) :
              \A j \in 1..Len(NumericOf(tout.who, tout.df)) : ~IsNull(tout.X[i][j])

Predict(who, self, rec) == IF who = "co2" THEN pm_predict(self, rec) ELSE lum_predict(self, rec)

\* C24: persistence round-trip: after a load_model of a file that save_model
\* wrote, the trainer has the model, encoder, feature-column list and
\* metrics (and scaler) of the trainer the file was saved from, and predict
\* gives for every record what that trainer gave.
C24_PersistenceRoundTrip ==
    (tout.op = "load" /\ tout.status = "ok") =>
        LET self == Trainer(tout.who)
            saved == files[tout.who].saved_by
        IN /\ self.model = saved.model
           /\ self.ohe = saved.ohe
           /\ self.feature_columns = saved.feature_columns
           /\ self.metrics = saved.metrics
           /\ tout.who = "land_use" => self.scaler = saved.scaler
           /\ \A rec \in PredictRecords :
                 Predict(tout.who, self, rec) = Predict(tout.who, saved, rec)

\* a load that brought back the encoder and the vocabulary of an earlier
\* train, over those that a later train had stored
C24_Witness ==
    /\ tout.op = "load"
    /\ tout.who = "co2"
    /\ tout.status = "ok"
    /\ FromOneCall(pm)
    /\ tout.before.ohe # NoneV
    /\ tout.before.ohe.fitted
    /\ tout.before.ohe.call # pm.ohe.call
    /\ tout.before.feature_columns # pm.feature_columns

\* C29: on a land-use model trained with REGION and CATEGORIA as
\* categorical columns, a prediction from a record that has ANO, REGION and
\* land-use data but no CATEGORIA returns a value, with zero in the one-hot
\* columns of CATEGORIA.
C29_OptionalFieldsOmitted ==
    (/\ tout.op = "predict"
     /\ tout.who = "land_use"
     /\ FromOneCall(lum)
     /\ lum.ohe # NoneV
     /\ lum.ohe.cols = <<"REGION", "CATEGORIA">>
     /\ {"ANO", "REGION", "area"} \subseteq tout.rec.keys
     /\ "CATEGORIA" \notin tout.rec.keys) =>
        /\ tout.result.status = "ok"
        /\ \A j \in 1..Len(lum.feature_columns.names) :
              lum.feature_columns.names[j][1] = "CATEGORIA" => tout.result.value.x[j] = 0

(***************************************************************************)
(* Properties of the service.                                              *)
(***************************************************************************)
\* an upload answered with an error because the file did not parse or did
\* not clean
FailedUpload(rsp) ==
    rsp.op = "upload" /\ rsp.status = 500 /\ rsp.body \in {"parse", "clean"}

\* C25: an upload whose file cannot be parsed or cleaned leaves the analyzer
\* (its table and its partitions) and the merged table as they were before
\* the upload, and a region statistics query made right after it gets the
\* answer computed from that analyzer.
C25_FailedUploadKeepsTable ==
    [][/\ FailedUpload(resp') => analyzer' = analyzer /\ merged_df' = merged_df
       /\ (/\ FailedUpload(resp)
           /\ analyzer # NoAnalyzer
           /\ resp'.op = "stats"
           /\ resp'.endpoint = "regions") =>
             /\ resp'.status = 200
             /\ resp'.body = get_stats_by_region(analyzer, resp'.year,
                                                 resp'.category_type).result.value]_vars

\* a failed upload made while a table and a merged table were held
C25_Witness ==
    /\ FailedUpload(resp)
    /\ resp.data_type = "co2"
    /\ resp.body = "clean"
    /\ analyzer # NoAnalyzer
    /\ merged_df # NoneV

\* the endpoints that answer with a sequence of groups
SequenceEndpoints ==
    {"regions", "categories", "region-category", "time-series", "top-emitters",
     "emissions-by-unit"}

\* the rows the filters of the last statistics request select
Selected ==
    filter_data(analyzer, resp.year, resp.region, NoneArg, NoneArg, resp.category_type).result

\* a statistics request that selected no row of a loaded table gets the
\* empty sequence
EmptyResultAnswered ==
    (/\ resp.op = "stats"
     /\ resp.had_table
     /\ resp.endpoint \in SequenceEndpoints
     /\ Empty(Selected)) => resp.status = 200 /\ resp.body = <<>>

\* C26: a statistics, dashboard or /model/train request made while no table
\* is loaded is answered 503, a /land-use/train request made then is
\* answered 400 (no merged table), none of them with a result; and a
\* statistics request that selects no row of a loaded table is answered 200
\* with the empty sequence.
C26_NoDataDistinct ==
    /\ (resp.op \in {"stats", "train"} /\ ~resp.had_table) => resp.status = 503
    /\ (resp.op = "land_use_train" /\ ~resp.had_table) => resp.status = 400
    /\ EmptyResultAnswered

\* both cases have happened: a request refused for want of a table, and an
\* empty answer from a loaded table
C26_Witness ==
    /\ resp.op = "stats"
    /\ resp.had_table
    /\ resp.endpoint \in SequenceEndpoints
    /\ Empty(Selected)
    /\ Len(analyzer.df.rows) > 0

\* C26 as stated: every statistics, dashboard and model-training request
\* made while no table is loaded is answered 503.
C26_NoDataIs503 ==
    /\ (resp.op \in {"stats", "train", "land_use_train"} /\ ~resp.had_table) =>
          resp.status = 503
    /\ EmptyResultAnswered

\* the models of two trains are the same fit: the same estimator on the same
\* columns, grown from the same seed
SameFit(m1, m2) ==
    /\ m1.kind = m2.kind
    /\ m1.n_estimators = m2.n_estimators
    /\ m1.cols = m2.cols
    /\ m1.seed = m2.seed

SameMetrics(m1, m2) ==
    /\ m1.train_samples = m2.train_samples
    /\ m1.test_samples = m2.test_samples
    /\ m1.n_features = m2.n_features
    /\ m1.scores = m2.scores

\* C27: two /model/train requests in a row on the same table, with the same
\* test_size and the same n_estimators, leave the same split sizes, the same
\* fitted model and the same metrics.
C27_TrainingReproducible ==
    [][(/\ resp.op = "train"
        /\ resp.status = 200
        /\ resp'.op = "train"
        /\ resp'.status = 200
        /\ resp'.test_size = resp.test_size
        /\ resp'.n_estimators = resp.n_estimators
        /\ analyzer' = analyzer) =>
          /\ SameFit(pm.model, pm'.model)
          /\ SameMetrics(pm.metrics, pm'.metrics)]_vars

\* C28: the merged table is always a merge of the table the analyzer holds;
\* a CO2 upload that succeeded leaves no merged table; /land-use/train and
\* /land-use/analysis answer 400 exactly when there is no merged table, and
\* what they answer with 200 was computed from a merge of the analyzer's
\* table.
C28_UploadClearsMerge ==
    /\ merged_df # NoneV => analyzer # NoAnalyzer /\ merged_df.of = analyzer.df
    /\ (resp.op = "upload" /\ resp.data_type = "co2" /\ resp.status = 200) =>
          merged_df = NoneV
    /\ resp.op \in {"land_use_train", "analysis"} =>
          /\ merged_df = NoneV => resp.status = 400
          /\ resp.status = 400 <=> ~resp.had_merge
          /\ resp.status = 200 => resp.body.of = analyzer.df

\* a CO2 upload has replaced a table from whose merge a land-use model had
\* been trained
C28_Witness ==
    /\ resp.op = "upload"
    /\ resp.data_type = "co2"
    /\ resp.status = 200
    /\ merged_df = NoneV
    /\ files.land_use # NoFile
    /\ files.land_use.data.metrics.call > 0

\* C30: an upload of a .csv file whose data_type is neither 'co2' nor
\* 'land_use' is answered 400 and changes neither the analyzer nor the merged
\* table, and a merge that names a missing land-use file, made while a table
\* is loaded, is answered 404.
C30_ClientErrorsReachCaller ==
    /\ (/\ resp.op = "upload"
        /\ resp.ext \in AllowedExtensions
        /\ resp.data_type \notin {"co2", "land_use"}) => resp.status = 400
    /\ (resp.op = "merge" /\ resp.had_table /\ resp.path # NoneArg) => resp.status = 404

============================================================================
